---- MODULE Spec2Model ----
(***************************************************************************)
(* Verification model of requestipy: the command Dispatcher                *)
(* (src/src/executor.py), the command registry (src/src/command_manager.py),*)
(* the playback engine (src/src/audio_player.py) and the log tailer        *)
(* (src/src/log_reader.py).                                                *)
(*                                                                         *)
(* Strings whose characters the code inspects (strip, lstrip, lower) are   *)
(* sequences of one-character strings.  Time is counted in quarter seconds.*)
(***************************************************************************)
EXTENDS Integers, Sequences, FiniteSets, TLC

VARIABLES
    \* ---- Executor (src/src/executor.py) ----
    config_admin_user,        \* self._config.get("admin_user")
    commands,                 \* CommandManager._commands: key -> Command
    now,                      \* the latest reading of time.time(), in quarter seconds
    n_calls,                  \* number of handle_command_event calls so far (bounded)
    last_event_time,          \* Executor._last_event_time
    last_event_details,       \* Executor._last_event_details
    user_last_command_time,   \* Executor._user_last_command_time
    hpc,                      \* per publisher thread: position in handle_command_event
    call,                     \* per publisher thread: the locals of its current/last call
    acc,                      \* history: the last event that passed the duplicate check
    pass_last,                \* history: per user, when an event last passed rate limiting
    \* ---- AudioPlayer (src/src/audio_player.py) ----
    stop_event,               \* self._stop_event
    play_queue,               \* self._play_queue: the queued items, oldest first
    current_stream,           \* self._current_stream: a stream, or 0 for None
    wpc,                      \* the playback thread's position in _playback_loop
    file_path,                \* the worker's local file_path: the dequeued item
    open_streams,             \* the OutputStreams created and not yet closed
    stream_active,            \* the worker's local stream is started and not stopped
    stream_finished_event,    \* the local stream_finished_event of this iteration
    playback_interrupted,     \* the local playback_interrupted flag
    cpc,                      \* the caller's position in stop_playback
    next_id,                  \* number of paths play_file has accepted so far
    n_stops,                  \* number of stop_playback calls so far (bounded)
    status,                   \* history: what became of each accepted item
    started,                  \* history: the items in the order the worker started them
    stop_log,                 \* history: the engine's state at each stop_playback call
    stop_before_start,        \* history: stop_playback was called in this iteration, after
                              \* the flag was cleared and before the item's stream started
    events,                   \* history: the playback events published on the EventBus
    sd_queued,                \* history: the items that were queued when shutdown was called
    callback_failed,          \* history: the items whose audio callback failed while reading
    \* ---- LogFileEventHandler (src/src/log_reader.py) ----
    log_file,                 \* the characters of console.log, as the game has written them
    epoch,                    \* history: how many times the game has truncated the file
    file_pos,                 \* the position of the file object self._file, in bytes
    last_size,                \* self._last_size
    tpc,                      \* per polling thread: its position in _read_new_lines
    current_size,             \* per polling thread: its local current_size
    arg,                      \* per polling thread: the argument it has evaluated for seek / read
    lines,                    \* per polling thread: the lines it has read and not yet handed on
    n_polls,                  \* number of _read_new_lines calls so far (bounded)
    reads,                    \* history: the byte ranges read, in the order they were read
    delivered,                \* history: the lines handed to the line callback, in order
    overlapped,               \* history: two calls of _read_new_lines have overlapped
    shrink_found,             \* history: when a poll last found the file shrunk: the number
                              \* of lines delivered until then and the file's epoch
    \* ---- CommandManager (src/src/command_manager.py) ----
    \* histories of the last thing that happened to the registry (one of the
    \* three is set at a time)
    last_register,            \* it was a call of register_command: its arguments, the index
                              \* before it and what it returned
    last_call,                \* it was a call of unregister_command, enable_command or
                              \* disable_command: its name, the index before it and what
                              \* it returned or found
    xpc,                      \* where the thread running Command.execute is
    held,                     \* the Command that thread executes (self)
    held_live,                \* history: that Command is still the one in the index
    last_exec,                \* it was an execution: whether it called the handler
    \* ---- EventBus (src/src/event_bus.py) ----
    subscribers,              \* self._subscribers: event type -> list of callbacks
    ppc,                      \* where the call of publish is
    ptopic,                   \* publish: event_type
    payload,                  \* publish: *args, **kwargs
    snapshot,                 \* publish: the copy self._subscribers[event_type][:]
    idx,                      \* publish: the position of the for loop in the copy
    called,                   \* history: the callbacks called by this publish, with what
    at_begin,                 \* history: the subscriber list when this publish began
    raised_at,                \* history: the positions whose callback raised
    \* ---- the threads that run the command handlers (executor.py:105-106) ----
    threads,                  \* one entry per thread started: who started it, where it is
    \* ---- LogReader._process_line (src/src/log_reader.py) ----
    log_line,                 \* line: the line handed to _process_line
    lpc,                      \* where _process_line is
    raw_user_name,            \* the user field of the chat format that matched
    cur_user_name,            \* user_name: the name the tags are stripped from
    message,                  \* the message of the chat format that matched
    steamid,                  \* the steamid group, or None
    team,                     \* the team group, or None
    stripped_tags,            \* the tags stripped so far
    n_passes,                 \* history: the passes of the while loop so far
    published,                \* history: the events published for the line
    \* ---- cmd_tts (src/src/core_commands.py) ----
    tts_pc,                   \* where cmd_tts and its thread generate_convert_and_play are
    text_to_speak,            \* the words of the command, or None
    wav_file_path,            \* the WAV file of the speech, or None
    direct_stream,            \* sd.play(..., blocking=True) is playing the WAV
    tts_result,               \* history: how the command ended
    \* ---- command lines that both publisher threads deliver ----
    chunk,                    \* the command events of the lines appended in one write
    dpos,                     \* per publisher thread: how many of them it has handed on
    \* ---- a caller of AudioPlayer.get_queue_snapshot ----
    queue_snapshot            \* the list the last call returned

execVars == <<config_admin_user, commands, now, n_calls, last_event_time,
              last_event_details, user_last_command_time, hpc, call, acc, pass_last>>

playerVars == <<stop_event, play_queue, current_stream, wpc, file_path, open_streams,
                stream_active, stream_finished_event, playback_interrupted, cpc,
                next_id, n_stops, status, started, stop_log, stop_before_start, events, sd_queued,
                callback_failed>>

tailVars == <<log_file, epoch, file_pos, last_size, tpc, current_size, arg, lines, n_polls,
              reads, delivered, overlapped, shrink_found>>

regVars == <<last_register, last_call, xpc, held, held_live, last_exec>>

busVars == <<subscribers, ppc, ptopic, payload, snapshot, idx, called, at_begin, raised_at>>

handlerVars == <<threads>>

parseVars == <<log_line, lpc, raw_user_name, cur_user_name, message, steamid, team, stripped_tags,
               n_passes, published>>

ttsVars == <<tts_pc, text_to_speak, wav_file_path, direct_stream, tts_result>>

chunkVars == <<chunk, dpos>>

snapVars == <<queue_snapshot>>

vars == <<execVars, playerVars, tailVars, regVars, busVars, handlerVars, parseVars, ttsVars,
          chunkVars, snapVars>>

(***************************************************************************)
(* Bounds and program constants                                            *)
(***************************************************************************)
\* executor.py:14, 0.5 s in quarter seconds
DUPLICATE_COMMAND_THRESHOLD == 2
\* executor.py:17, 30.0 s in quarter seconds
NON_ADMIN_RATE_LIMIT_SECONDS == 120
\* how many command events are published in one behaviour
MaxCalls == 2
\* time.time() when the Executor is constructed (any positive instant)
StartTime == 1

\* how many paths play_file accepts in one behaviour
MaxItems == 2
\* how many times stop_playback is called in one behaviour
MaxStops == 1

\* how many lines the game writes between two truncations
MaxLines == 2
\* how many times the game truncates the log
MaxTruncations == 1
\* how many times _read_new_lines is called in one behaviour
MaxPolls == 3

\* the value None (kept a sequence so that it compares with strings)
NoneVal == <<"<None>">>

\* The threads that publish command_detected events: the watchdog observer
\* thread (on_modified) and the monitor thread (the fixed-interval poll).
Publishers == {"watchdog", "monitor"}

\* user names as LogReader._process_line produces them: non-empty, stripped
UserNames == { <<"a">>, <<"b">> }
\* the command_detected events published: user name, command token (the
\* first token of a message that starts with "!") and argument list
Events == { << <<"a">>, <<"!", "p">>, <<>> >>,
            << <<"a">>, <<"!", "S">>, <<>> >>,
            << <<"b">>, <<"!", "p">>, <<>> >>,
            << <<"b">>, <<"!", "p">>, <<"x">> >>,
            << <<"b">>, <<"!", "s", "t", "o", "p">>, <<>> >>,
            << <<"b">>, <<"!", "!", "x">>, <<>> >> }
\* the configured admin_user: absent, plain, padded with whitespace
AdminConfigs == { NoneVal, <<"a">>, <<" ", "a", " ">> }
\* how much later than the previous reading of the clock an event arrives
Deltas == { 1, DUPLICATE_COMMAND_THRESHOLD, NON_ADMIN_RATE_LIMIT_SECONDS }

(***************************************************************************)
(* String helpers                                                          *)
(***************************************************************************)
IsSpace(c) == c \in {" ", "\t"}

RECURSIVE LStrip(_)
LStrip(s) == IF s # <<>> /\ IsSpace(Head(s)) THEN LStrip(Tail(s)) ELSE s

RECURSIVE RStrip(_)
RStrip(s) == IF s # <<>> /\ IsSpace(s[Len(s)]) THEN RStrip(SubSeq(s, 1, Len(s) - 1)) ELSE s

\* str.strip()
Strip(s) == RStrip(LStrip(s))

\* str.lstrip('!')
RECURSIVE LStripBang(_)
LStripBang(s) == IF s # <<>> /\ Head(s) = "!" THEN LStripBang(Tail(s)) ELSE s

LowerChar(c) == CASE c = "P" -> "p" [] c = "S" -> "s" [] c = "X" -> "x" [] c = "A" -> "a"
                  [] c = "L" -> "l" [] c = "Y" -> "y"
                  [] OTHER -> c
\* str.lower()
Lower(s) == [i \in 1..Len(s) |-> LowerChar(s[i])]

\* Python truthiness of an Optional[str]
Truthy(s) == s # NoneVal /\ s # <<>>

(***************************************************************************)
(* CommandManager (src/src/command_manager.py)                             *)
(***************************************************************************)
Range(f) == { f[i] : i \in DOMAIN f }

\* Command.__init__
NewCommand(name, func, aliases, admin_only) ==
    [ name       |-> Lower(name),
      func       |-> func,
      aliases    |-> [i \in 1..Len(aliases) |-> Lower(aliases[i])],
      admin_only |-> admin_only,
      enabled    |-> TRUE ]

\* only the name is checked, not the aliases
RegisterConflictNameOnly(cmds, name, aliases) == Lower(name) \in DOMAIN cmds

\* the conflict checks of register_command
RegisterConflict(cmds, name, aliases) ==
    \/ Lower(name) \in DOMAIN cmds
    \/ \E i \in 1..Len(aliases) : Lower(aliases[i]) \in DOMAIN cmds

\* register_command: the index after the call (unchanged when it returns False)
RegisterCommand(cmds, name, func, aliases, admin_only) ==
    IF RegisterConflict(cmds, name, aliases) THEN cmds
    ELSE LET command == NewCommand(name, func, aliases, admin_only)
             keys    == {command.name} \cup Range(command.aliases)
         IN  [k \in DOMAIN cmds \cup keys |-> IF k \in keys THEN command ELSE cmds[k]]

\* the result None of a lookup (a record, so that it compares with Commands)
NoCommand == [ name |-> NoneVal, func |-> "None", aliases |-> <<>>,
               admin_only |-> FALSE, enabled |-> FALSE ]

\* a lookup of the name as it was typed
GetCommandExact(cmds, name) == IF name \in DOMAIN cmds THEN cmds[name] ELSE NoCommand

\* get_command: the Command, or NoCommand
GetCommand(cmds, name) ==
    LET name_lower == Lower(name)
    IN  IF name_lower \in DOMAIN cmds THEN cmds[name_lower] ELSE NoCommand

EmptyIndex == [k \in {} |-> NoCommand]

\* core_commands.register: "play" (alias "p", open to all) and "stop"
\* (alias "s", admin only)
CoreCommands ==
    RegisterCommand(
        RegisterCommand(EmptyIndex, <<"p","l","a","y">>, "cmd_play", << <<"p">> >>, FALSE),
        <<"s","t","o","p">>, "cmd_stop", << <<"s">> >>, TRUE)

(***************************************************************************)
(* Executor (src/src/executor.py)                                          *)
(***************************************************************************)
NoDetails == <<>>
NoCall == [ user |-> NoneVal, command |-> <<>>, args |-> <<>>, time |-> 0,
            dup |-> "none", cooling |-> FALSE, outcome |-> "none" ]

\* IsAdmin without the trimming of either side
IsAdminNoStrip(admin_user, user_name) ==
    /\ Truthy(admin_user)
    /\ Truthy(user_name)
    /\ user_name = admin_user

\* line 68: admin_user and user_name and user_name.strip() == admin_user.strip()
IsAdmin(admin_user, user_name) ==
    /\ Truthy(admin_user)
    /\ Truthy(user_name)
    /\ Strip(user_name) = Strip(admin_user)

\* IsDuplicate with the window closed at its upper end
IsDuplicateInclusive(current_details, current_time, details, time) ==
    /\ current_details = details
    /\ current_time - time <= DUPLICATE_COMMAND_THRESHOLD

\* lines 53-55: the duplicate test
IsDuplicate(current_details, current_time, details, time) ==
    /\ current_details = details
    /\ current_time - time < DUPLICATE_COMMAND_THRESHOLD

\* dict.get: the stored timestamp, or 0 for None (both are falsy at line 74)
LastTime(table, user_name) ==
    IF user_name \in DOMAIN table THEN table[user_name] ELSE 0

\* lines 74-78: the rate-limit test
RateLimited(last_time, current_time) ==
    /\ last_time # 0
    /\ current_time - last_time < NON_ADMIN_RATE_LIMIT_SECONDS

\* AdminOnlyDenied with the test of the requester inverted
AdminOnlyDeniedInverted(cmd_obj, is_admin) == cmd_obj.admin_only /\ is_admin

\* line 98
AdminOnlyDenied(cmd_obj, is_admin) == cmd_obj.admin_only /\ ~is_admin

\* lines 91-113: look the command up, apply the admin-only check and start
\* the handler thread; what became of the event
DispatchResult(cmds, command_name, is_admin) ==
    LET cmd_obj == GetCommand(cmds, command_name)
    IN  IF cmd_obj = NoCommand THEN "not_found"
        ELSE IF AdminOnlyDenied(cmd_obj, is_admin) THEN "denied"
        ELSE "started"

\* History bookkeeping at the moment an event arrives: how it relates to
\* the last event that passed the duplicate check, and whether its user is
\* inside a cool-down that an earlier acceptance started.
DupCase(details, time) ==
    IF acc.details # details THEN "none"
    ELSE IF time - acc.time < DUPLICATE_COMMAND_THRESHOLD THEN "within" ELSE "after"

Cooling(user_name, time) ==
    /\ user_name \in DOMAIN pass_last
    /\ pass_last[user_name] <= time
    /\ time < pass_last[user_name] + NON_ADMIN_RATE_LIMIT_SECONDS

\* Lines 43-64: a publisher thread enters handle_command_event d after the
\* previous call read the clock, reads the clock (the only place that does)
\* and runs the duplicate check under _event_lock.
EnterHandler(t, user_name, command, args, d) ==
    /\ now' = now + d
    /\ LET current_time    == now + d
           command_name    == LStripBang(command)
           current_details == <<user_name, command_name, args>>
           is_duplicate    == IsDuplicate(current_details, current_time,
                                          last_event_details, last_event_time)
           c == [ user |-> user_name, command |-> command_name, args |-> args,
                  time |-> current_time,
                  dup |-> DupCase(current_details, current_time),
                  cooling |-> Cooling(user_name, current_time),
                  outcome |-> IF is_duplicate THEN "duplicate" ELSE "pending" ]
       IN  /\ call' = [call EXCEPT ![t] = c]
           /\ IF is_duplicate
              THEN /\ hpc' = [hpc EXCEPT ![t] = "done"]
                   /\ UNCHANGED <<last_event_time, last_event_details, acc>>
              ELSE /\ last_event_time' = current_time
                   /\ last_event_details' = current_details
                   /\ acc' = [details |-> current_details, time |-> current_time]
                   /\ hpc' = [hpc EXCEPT ![t] = "rate"]
    /\ UNCHANGED <<config_admin_user, commands, user_last_command_time, pass_last>>

\* handle_command_event is called for an event published by thread t
DuplicateCheck(t, user_name, command, args, d) ==
    /\ hpc[t] = "idle"
    /\ n_calls < MaxCalls
    /\ n_calls' = n_calls + 1
    /\ EnterHandler(t, user_name, command, args, d)
    /\ UNCHANGED <<playerVars, tailVars, regVars, busVars, handlerVars, parseVars, ttsVars,
                   chunkVars, snapVars>>

\* a user who keeps sending commands: how many events are handled
MaxAttempts == 3
\* the commands of a user who is not the administrator
CooldownEvents == { << <<"b">>, <<"!", "p">>, <<>> >>,
                    << <<"b">>, <<"!", "p">>, <<"x">> >> }
\* an event follows the previous one at once, or just before the rate
\* limit has run out
CooldownDeltas == { 1, NON_ADMIN_RATE_LIMIT_SECONDS - 1 }

\* handle_command_event is called for an event of that user
Attempt(t, user_name, command, args, d) ==
    /\ hpc[t] = "idle"
    /\ n_calls < MaxAttempts
    /\ n_calls' = n_calls + 1
    /\ EnterHandler(t, user_name, command, args, d)
    /\ UNCHANGED <<playerVars, tailVars, regVars, busVars, handlerVars, parseVars, ttsVars,
                   chunkVars, snapVars>>

\* the command lines one write of the game appends
MaxChunk == 2
ChunkEvents == { << <<"a">>, <<"!", "p">>, <<>> >>,
                 << <<"a">>, <<"!", "S">>, <<>> >>,
                 << <<"b">>, <<"!", "p">>, <<>> >> }
Chunks == { c \in UNION { [1..n -> ChunkEvents] : n \in 1..MaxChunk } :
                \A i, j \in DOMAIN c : c[i] = c[j] => i = j }

\* how much later than the previous event an event of the overlapping
\* calls of _read_new_lines arrives: less than the duplicate threshold
OverlapDelta == 1

\* the game appends command lines; both calls of _read_new_lines read them
\* (the watchdog call is in the sleep of log_reader.py:86 when the monitor
\* thread polls)
AppendChunk(c) ==
    /\ chunk = <<>>
    /\ chunk' = c
    /\ UNCHANGED dpos
    /\ UNCHANGED <<execVars, playerVars, tailVars, regVars, busVars, handlerVars, parseVars,
                   ttsVars, snapVars>>

\* log_reader.py:88-91: a call of _read_new_lines hands its next line to
\* _process_line, which publishes command_detected, and the EventBus calls
\* handle_command_event on the same thread
DeliverCommand(t) ==
    /\ hpc[t] = "idle"
    /\ dpos[t] < Len(chunk)
    /\ dpos' = [dpos EXCEPT ![t] = dpos[t] + 1]
    /\ LET e == chunk[dpos[t] + 1]
       IN  EnterHandler(t, e[1], e[2], e[3], OverlapDelta)
    /\ UNCHANGED <<chunk, n_calls>>
    /\ UNCHANGED <<playerVars, tailVars, regVars, busVars, handlerVars, parseVars, ttsVars, snapVars>>

\* Lines 67-78: the admin test and, for a named non-admin, the read of the
\* rate-limit table and the comparison.  The administrator (and an event
\* without a user name) goes straight on to lines 91-113.
\* the thread is joined before handle_command_event returns
JoinsHandlerAlways == TRUE

\* lines 105-106: the thread is started and not joined
JoinsHandler == FALSE

\* Command.execute, lines 27-30, in the started thread: the handler of a
\* disabled command is not called
ThreadEntry(cmd_obj) == IF cmd_obj.enabled THEN "running" ELSE "refused"

\* lines 103-106: a thread is started for a command that is found and
\* allowed, with cmd_obj.execute as its target
ThreadsAfter(t, outcome) ==
    IF outcome = "started"
    THEN Append(threads, [by |-> t, state |-> ThreadEntry(GetCommand(commands, call[t].command))])
    ELSE threads

\* the attempt is recorded as the user's last command
TableAfterDiscardStamped(table, user_name, time) ==
    [u \in DOMAIN table \cup {user_name} |-> IF u = user_name THEN time ELSE table[u]]

\* lines 76-78: a rate-limited event returns before line 82; the table
\* stays as it is
TableAfterDiscard(table, user_name, time) == table

RateLimitCheck(t) ==
    /\ hpc[t] = "rate"
    /\ LET c         == call[t]
           is_admin  == IsAdmin(config_admin_user, c.user)
           last_time == LastTime(user_last_command_time, c.user)
       IN  IF is_admin \/ ~Truthy(c.user)
           THEN /\ hpc' = [hpc EXCEPT ![t] = "done"]
                /\ call' = [call EXCEPT ![t].outcome =
                               DispatchResult(commands, c.command, is_admin)]
                /\ threads' = ThreadsAfter(t, DispatchResult(commands, c.command, is_admin))
                /\ UNCHANGED <<pass_last, user_last_command_time>>
           ELSE IF RateLimited(last_time, c.time)
           THEN /\ hpc' = [hpc EXCEPT ![t] = "done"]
                /\ call' = [call EXCEPT ![t].outcome = "rate_limited"]
                /\ user_last_command_time' =
                       TableAfterDiscard(user_last_command_time, c.user, c.time)
                /\ UNCHANGED <<pass_last, threads>>
           ELSE /\ hpc' = [hpc EXCEPT ![t] = "write"]
                /\ pass_last' = [u \in DOMAIN pass_last \cup {c.user} |->
                                    IF u = c.user THEN c.time ELSE pass_last[u]]
                /\ UNCHANGED <<call, threads, user_last_command_time>>
    /\ UNCHANGED <<playerVars, tailVars, regVars, busVars, parseVars, ttsVars, chunkVars, snapVars>>
    /\ UNCHANGED <<config_admin_user, commands, now, n_calls, last_event_time,
                   last_event_details, acc>>

\* Line 82 records the acceptance time for the user; lines 91-113 follow.
RateLimitRecord(t) ==
    /\ hpc[t] = "write"
    /\ user_last_command_time' =
           [u \in DOMAIN user_last_command_time \cup {call[t].user} |->
               IF u = call[t].user THEN call[t].time ELSE user_last_command_time[u]]
    /\ call' = [call EXCEPT ![t].outcome =
                   DispatchResult(commands, call[t].command,
                                  IsAdmin(config_admin_user, call[t].user))]
    /\ threads' = ThreadsAfter(t, DispatchResult(commands, call[t].command,
                                                IsAdmin(config_admin_user, call[t].user)))
    /\ hpc' = [hpc EXCEPT ![t] = "done"]
    /\ UNCHANGED <<playerVars, tailVars, regVars, busVars, parseVars, ttsVars, chunkVars, snapVars>>
    /\ UNCHANGED <<config_admin_user, commands, now, n_calls, last_event_time,
                   last_event_details, acc, pass_last>>

\* handle_command_event returns to the publisher.
Return(t) ==
    /\ hpc[t] = "done"
    /\ JoinsHandler => \A i \in DOMAIN threads :
                           threads[i].by = t => threads[i].state # "running"
    /\ hpc' = [hpc EXCEPT ![t] = "idle"]
    /\ call' = [call EXCEPT ![t] = NoCall]
    /\ UNCHANGED <<playerVars, tailVars, regVars, busVars, handlerVars, parseVars, ttsVars, chunkVars, snapVars>>
    /\ UNCHANGED <<config_admin_user, commands, now, n_calls, last_event_time,
                   last_event_details, user_last_command_time, acc, pass_last>>

\* an exception of the handler leaves the thread
ExecuteCatchesNothing(state) == "crashed"

\* Command.execute, lines 38-42: try: self.func(user, args) except Exception:
\* the error is logged and execute returns
ExecuteCatches(state) == "caught"

\* the handler of thread i returns
HandlerReturn(i) ==
    /\ threads[i].state = "running"
    /\ threads' = [threads EXCEPT ![i].state = "returned"]
    /\ UNCHANGED <<execVars, playerVars, tailVars, regVars, busVars, parseVars, ttsVars, chunkVars, snapVars>>

\* the handler of thread i raises an Exception
HandlerRaise(i) ==
    /\ threads[i].state = "running"
    /\ threads' = [threads EXCEPT ![i].state = ExecuteCatches("raised")]
    /\ UNCHANGED <<execVars, playerVars, tailVars, regVars, busVars, parseVars, ttsVars, chunkVars, snapVars>>

\* Executor.__init__ (lines 22-34), with the core commands registered
ExecInit ==
    /\ config_admin_user \in AdminConfigs
    /\ commands = CoreCommands
    /\ now = StartTime
    /\ n_calls = 0
    /\ last_event_time = 0
    /\ last_event_details = NoDetails
    /\ user_last_command_time = [u \in {} |-> 0]
    /\ hpc = [t \in Publishers |-> "idle"]
    /\ call = [t \in Publishers |-> NoCall]
    /\ acc = [details |-> NoDetails, time |-> 0]
    /\ pass_last = [u \in {} |-> 0]

ExecNext ==
    \/ \E t \in Publishers, e \in Events, d \in Deltas :
           DuplicateCheck(t, e[1], e[2], e[3], d)
    \/ \E t \in Publishers : RateLimitCheck(t)
    \/ \E t \in Publishers : RateLimitRecord(t)
    \/ \E t \in Publishers : Return(t)


(***************************************************************************)
(* AudioPlayer (src/src/audio_player.py)                                   *)
(*                                                                         *)
(* A queued item is the path handed to play_file together with its arrival *)
(* number, which only the history variables use.  The worker's steps are   *)
(* cut at every access to state another thread can change: the stop flag,  *)
(* the queue and the stream's finished event.  queue.Queue's count of      *)
(* unfinished tasks is left out: nothing in the engine calls join().       *)
(***************************************************************************)
\* what play_file may be handed: a path, or something it rejects
FilePaths == { "a.wav" }
InvalidPaths == { "" }

NoItem == [id |-> 0, path |-> ""]

\* the sentinel shutdown puts on the queue (line 316): None
Sentinel == [id |-> 0, path |-> "<None>"]

\* lines 16-18: the event names
EVENT_PLAYBACK_STARTED == "playback_started"
EVENT_PLAYBACK_FINISHED == "playback_finished"
EVENT_PLAYBACK_ERROR == "playback_error"
Ids == 1..MaxItems

\* the worker holds a dequeued item it has not finished with
InFlight == wpc \in {"check", "open", "start", "wait", "cleanup", "error"}

\* the newest item is taken
GetIndexNewest(q) == Len(q)

\* queue.Queue.get / get_nowait (lines 89, 293): the oldest item is taken
GetIndex(q) == 1

RemoveAt(q, i) == SubSeq(q, 1, i - 1) \o SubSeq(q, i + 1, Len(q))

\* the stream is left open
CloseStreamLeak(streams, s) == streams

\* stream.close() (lines 221, 252)
CloseStream(streams, s) == streams \ {s}

\* the flag is left as it was found
StopEventAtLoopTopKept(flag) == flag

\* line 80: _stop_event.clear()
StopEventAtLoopTop(flag) == FALSE

\* the flag is cleared once the interruption has been handled
StopEventAfterItemCleared(flag) == FALSE

\* lines 230-234: handling an interruption leaves the stop flag as it is
StopEventAfterItem(flag) == flag

\* the engine state a stop_playback call finds (history)
StopRecord(clear_queue) ==
    [ clear     |-> clear_queue,
      streaming |-> wpc = "wait",
      item      |-> IF InFlight THEN file_path.id ELSE 0,
      queued    |-> [i \in 1..Len(play_queue) |-> play_queue[i].id] ]

\* play_file (lines 268-275)
PlayFile(path) ==
    /\ next_id < MaxItems
    /\ IF path \in InvalidPaths
       THEN UNCHANGED <<play_queue, next_id, status>>
       ELSE /\ play_queue' = Append(play_queue, [id |-> next_id + 1, path |-> path])
            /\ next_id' = next_id + 1
            /\ status' = [status EXCEPT ![next_id + 1] = "queued"]
    /\ UNCHANGED <<stop_event, current_stream, wpc, file_path, open_streams, stream_active,
                   stream_finished_event, playback_interrupted, cpc, n_stops, started,
                   stop_log, stop_before_start>>
    /\ UNCHANGED <<events, sd_queued, callback_failed>>
    /\ UNCHANGED <<execVars, tailVars, regVars, busVars, handlerVars, parseVars, ttsVars, chunkVars, snapVars>>

\* stop_playback, lines 277-289: set the stop flag; with clear_queue go on
\* to drain the queue
StopPlayback(clear_queue) ==
    /\ cpc = "idle"
    /\ n_stops < MaxStops
    /\ n_stops' = n_stops + 1
    /\ stop_event' = TRUE
    /\ cpc' = IF clear_queue THEN "drain" ELSE "idle"
    /\ stop_log' = Append(stop_log, StopRecord(clear_queue))
    /\ stop_before_start' = (stop_before_start \/ wpc \in {"get", "check", "open", "start"})
    /\ UNCHANGED <<play_queue, current_stream, wpc, file_path, open_streams, stream_active,
                   stream_finished_event, playback_interrupted, next_id, status, started>>
    /\ UNCHANGED <<events, sd_queued, callback_failed>>
    /\ UNCHANGED <<execVars, tailVars, regVars, busVars, handlerVars, parseVars, ttsVars, chunkVars, snapVars>>

\* stop_playback, lines 291-299: one turn of the drain loop: leave when the
\* queue is empty (empty() is true, or get_nowait raises Empty), otherwise
\* take one item; a call made by shutdown returns into shutdown
DrainQueue ==
    /\ cpc \in {"drain", "sd_drain"}
    /\ IF play_queue = <<>>
       THEN /\ cpc' = IF cpc = "drain" THEN "idle" ELSE "sd_set"
            /\ UNCHANGED <<play_queue, status>>
       ELSE /\ play_queue' = RemoveAt(play_queue, GetIndex(play_queue))
            /\ status' = [status EXCEPT ![play_queue[GetIndex(play_queue)].id] = "drained"]
            /\ UNCHANGED cpc
    /\ UNCHANGED <<stop_event, current_stream, wpc, file_path, open_streams, stream_active,
                   stream_finished_event, playback_interrupted, next_id, n_stops, started,
                   stop_log, stop_before_start>>
    /\ UNCHANGED <<events, sd_queued, callback_failed>>
    /\ UNCHANGED <<execVars, tailVars, regVars, busVars, handlerVars, parseVars, ttsVars, chunkVars, snapVars>>

\* _playback_loop, line 80: the top of an iteration clears the stop flag
LoopTop ==
    /\ wpc = "top"
    /\ stop_event' = StopEventAtLoopTop(stop_event)
    /\ wpc' = "get"
    /\ stop_before_start' = FALSE
    /\ UNCHANGED <<play_queue, current_stream, file_path, open_streams, stream_active,
                   stream_finished_event, playback_interrupted, cpc, next_id, n_stops,
                   status, started, stop_log>>
    /\ UNCHANGED <<events, sd_queued, callback_failed>>
    /\ UNCHANGED <<execVars, tailVars, regVars, busVars, handlerVars, parseVars, ttsVars, chunkVars, snapVars>>

\* lines 87-97: get(timeout=0.5) returns the oldest item, or times out on an
\* empty queue and the loop starts over; the sentinel ends the loop
QueueGet ==
    /\ wpc = "get"
    /\ IF play_queue = <<>>
       THEN /\ wpc' = "top"
            /\ stop_before_start' = FALSE
            /\ UNCHANGED <<play_queue, file_path>>
       ELSE /\ file_path' = play_queue[GetIndex(play_queue)]
            /\ play_queue' = RemoveAt(play_queue, GetIndex(play_queue))
            /\ wpc' = IF play_queue[GetIndex(play_queue)] = Sentinel THEN "exited" ELSE "check"
            /\ UNCHANGED stop_before_start
    /\ UNCHANGED <<stop_event, current_stream, open_streams, stream_active,
                   stream_finished_event, playback_interrupted, cpc, next_id, n_stops,
                   status, started, stop_log>>
    /\ UNCHANGED <<events, sd_queued, callback_failed>>
    /\ UNCHANGED <<execVars, tailVars, regVars, busVars, handlerVars, parseVars, ttsVars, chunkVars, snapVars>>

\* lines 101-108: with the stop flag set the item is dropped; otherwise
\* playback of it begins
StopCheck ==
    /\ wpc = "check"
    /\ IF stop_event
       THEN /\ status' = [status EXCEPT ![file_path.id] = "skipped"]
            /\ wpc' = "top"
            /\ UNCHANGED started
       ELSE /\ status' = [status EXCEPT ![file_path.id] = "active"]
            /\ started' = Append(started, file_path.id)
            /\ wpc' = "open"
    /\ UNCHANGED <<stop_event, play_queue, current_stream, file_path, open_streams,
                   stream_active, stream_finished_event, playback_interrupted, cpc,
                   next_id, n_stops, stop_log, stop_before_start>>
    /\ UNCHANGED <<events, sd_queued, callback_failed>>
    /\ UNCHANGED <<execVars, tailVars, regVars, busVars, handlerVars, parseVars, ttsVars, chunkVars, snapVars>>

\* lines 126-186: open the sound file and create the OutputStream; either
\* may raise
OpenStream ==
    /\ wpc = "open"
    /\ stream_finished_event' = FALSE
    /\ playback_interrupted' = FALSE
    /\ \/ /\ open_streams' = open_streams \cup {file_path.id}
          /\ wpc' = "start"
       \/ /\ wpc' = "error"
          /\ UNCHANGED open_streams
    /\ UNCHANGED <<stop_event, play_queue, current_stream, file_path, stream_active, cpc,
                   next_id, n_stops, status, started, stop_log, stop_before_start>>
    /\ UNCHANGED <<events, sd_queued, callback_failed>>
    /\ UNCHANGED <<execVars, tailVars, regVars, busVars, handlerVars, parseVars, ttsVars, chunkVars, snapVars>>

\* lines 188-191: under _lock, publish the stream in _current_stream and
\* start it; start() may raise
StartStream ==
    /\ wpc = "start"
    /\ current_stream' = file_path.id
    /\ \/ /\ stream_active' = TRUE
          /\ wpc' = "wait"
       \/ /\ wpc' = "error"
          /\ UNCHANGED stream_active
    /\ UNCHANGED <<stop_event, play_queue, file_path, open_streams, stream_finished_event,
                   playback_interrupted, cpc, next_id, n_stops, status, started, stop_log,
                   stop_before_start>>
    /\ UNCHANGED <<events, sd_queued, callback_failed>>
    /\ UNCHANGED <<execVars, tailVars, regVars, busVars, handlerVars, parseVars, ttsVars, chunkVars, snapVars>>

\* lines 139-175: the refill callback reaches the end of the file (or
\* aborts) and finished_callback sets the event
StreamFinished ==
    /\ stream_active
    /\ stream_finished_event' = TRUE
    /\ stream_active' = FALSE
    /\ UNCHANGED <<stop_event, play_queue, current_stream, wpc, file_path, open_streams,
                   playback_interrupted, cpc, next_id, n_stops, status, started, stop_log,
                   stop_before_start>>
    /\ UNCHANGED <<events, sd_queued, callback_failed>>
    /\ UNCHANGED <<execVars, tailVars, regVars, busVars, handlerVars, parseVars, ttsVars, chunkVars, snapVars>>

\* lines 146-169: reading the file in the audio callback raises (a decode
\* error in the middle of the file); the callback's except block sets the
\* finished event and aborts the stream
CallbackError ==
    /\ stream_active
    /\ stream_finished_event' = TRUE
    /\ stream_active' = FALSE
    /\ callback_failed' = callback_failed \cup {file_path.id}
    /\ UNCHANGED <<stop_event, play_queue, current_stream, wpc, file_path, open_streams,
                   playback_interrupted, cpc, next_id, n_stops, status, started, stop_log,
                   stop_before_start, events, sd_queued>>
    /\ UNCHANGED <<execVars, tailVars, regVars, busVars, handlerVars, parseVars, ttsVars, chunkVars, snapVars>>

\* lines 195-211: one turn of the wait loop.  wait(0.1) returns true once
\* the event is set and the loop ends; after a timeout the stop flag is
\* read, and when it is set the stream is stopped (which runs
\* finished_callback) and the loop left.  An event set between the timeout
\* and the reading of the flag leaves the same state as one set after it.
WaitLoop ==
    /\ wpc = "wait"
    /\ IF stream_finished_event
       THEN /\ wpc' = "cleanup"
            /\ UNCHANGED <<playback_interrupted, stream_active, stream_finished_event>>
       ELSE /\ stop_event
            /\ playback_interrupted' = TRUE
            /\ stream_active' = FALSE
            /\ stream_finished_event' = TRUE
            /\ wpc' = "cleanup"
    /\ UNCHANGED <<stop_event, play_queue, current_stream, file_path, open_streams, cpc,
                   next_id, n_stops, status, started, stop_log, stop_before_start>>
    /\ UNCHANGED <<events, sd_queued, callback_failed>>
    /\ UNCHANGED <<execVars, tailVars, regVars, busVars, handlerVars, parseVars, ttsVars, chunkVars, snapVars>>

\* playback_finished is published for every stream that has ended
EventsAfterStreamAlways(evs, interrupted, finished, item) ==
    IF finished THEN Append(evs, [type |-> EVENT_PLAYBACK_FINISHED, file_path |-> item])
    ELSE evs

\* lines 227-234: playback_finished is published when the wait loop was not
\* left for a stop request and the stream's finished event is set
EventsAfterStream(evs, interrupted, finished, item) ==
    IF ~interrupted /\ finished
    THEN Append(evs, [type |-> EVENT_PLAYBACK_FINISHED, file_path |-> item])
    ELSE evs

\* lines 213-234 and the finally block 246-262: under _lock stop and close
\* the stream and clear _current_stream; report playback_finished unless
\* interrupted; mark the task done and start over
Cleanup ==
    /\ wpc = "cleanup"
    /\ IF current_stream = file_path.id
       THEN /\ stream_active' = FALSE
            /\ open_streams' = CloseStream(open_streams, file_path.id)
            /\ current_stream' = 0
       ELSE UNCHANGED <<stream_active, open_streams, current_stream>>
    /\ status' = [status EXCEPT ![file_path.id] =
                     IF ~playback_interrupted /\ stream_finished_event
                     THEN "finished" ELSE "interrupted"]
    /\ stop_event' = IF playback_interrupted THEN StopEventAfterItem(stop_event)
                     ELSE stop_event
    /\ wpc' = "top"
    /\ UNCHANGED <<play_queue, file_path, stream_finished_event, playback_interrupted, cpc,
                   next_id, n_stops, started, stop_log, stop_before_start>>
    /\ events' = EventsAfterStream(events, playback_interrupted, stream_finished_event,
                                    file_path)
    /\ UNCHANGED <<sd_queued, callback_failed>>
    /\ UNCHANGED <<execVars, tailVars, regVars, busVars, handlerVars, parseVars, ttsVars, chunkVars, snapVars>>

\* the worker thread ends
AfterErrorExit == "exited"

\* lines 237-262: after the except and finally blocks the while loop goes on
AfterError == "top"

\* lines 237-262: an exception while opening or starting reports
\* playback_error; the finally block closes a stream that is current and
\* still open, marks the task done, and the loop starts over
PlaybackError ==
    /\ wpc = "error"
    /\ status' = [status EXCEPT ![file_path.id] = "error"]
    /\ IF current_stream = file_path.id /\ file_path.id \in open_streams
       THEN /\ open_streams' = CloseStream(open_streams, file_path.id)
            /\ current_stream' = 0
       ELSE UNCHANGED <<open_streams, current_stream>>
    /\ wpc' = AfterError
    /\ UNCHANGED <<stop_event, play_queue, file_path, stream_active, stream_finished_event,
                   playback_interrupted, cpc, next_id, n_stops, started, stop_log,
                   stop_before_start>>
    /\ events' = Append(events, [type |-> EVENT_PLAYBACK_ERROR, file_path |-> file_path])
    /\ UNCHANGED <<sd_queued, callback_failed>>
    /\ UNCHANGED <<execVars, tailVars, regVars, busVars, handlerVars, parseVars, ttsVars, chunkVars, snapVars>>

\* shutdown, line 314, entering stop_playback(clear_queue=True), lines
\* 277-289: set the stop flag and go on to drain the queue
Shutdown ==
    /\ cpc = "idle"
    /\ stop_event' = TRUE
    /\ cpc' = "sd_drain"
    /\ stop_log' = Append(stop_log, StopRecord(TRUE))
    /\ stop_before_start' = (stop_before_start \/ wpc \in {"get", "check", "open", "start"})
    /\ sd_queued' = [i \in 1..Len(play_queue) |-> play_queue[i].id]
    /\ UNCHANGED <<play_queue, current_stream, wpc, file_path, open_streams, stream_active,
                   stream_finished_event, playback_interrupted, next_id, n_stops, status,
                   started, events, callback_failed>>
    /\ UNCHANGED <<execVars, tailVars, regVars, busVars, handlerVars, parseVars, ttsVars, chunkVars, snapVars>>

\* shutdown, line 315: set the stop flag again
ShutdownSetStop ==
    /\ cpc = "sd_set"
    /\ stop_event' = TRUE
    /\ cpc' = "sd_put"
    /\ stop_before_start' = (stop_before_start \/ wpc \in {"get", "check", "open", "start"})
    /\ UNCHANGED <<play_queue, current_stream, wpc, file_path, open_streams, stream_active,
                   stream_finished_event, playback_interrupted, next_id, n_stops, status,
                   started, stop_log, events, sd_queued, callback_failed>>
    /\ UNCHANGED <<execVars, tailVars, regVars, busVars, handlerVars, parseVars, ttsVars, chunkVars, snapVars>>

\* shutdown, line 316: put the sentinel on the queue
ShutdownPutSentinel ==
    /\ cpc = "sd_put"
    /\ play_queue' = Append(play_queue, Sentinel)
    /\ cpc' = "sd_join"
    /\ UNCHANGED <<stop_event, current_stream, wpc, file_path, open_streams, stream_active,
                   stream_finished_event, playback_interrupted, next_id, n_stops, status,
                   started, stop_log, stop_before_start, events, sd_queued,
                   callback_failed>>
    /\ UNCHANGED <<execVars, tailVars, regVars, busVars, handlerVars, parseVars, ttsVars, chunkVars, snapVars>>

\* shutdown, lines 318-323: join(timeout=2) returns when the worker has
\* left its loop, or when the two seconds are over
ShutdownJoin ==
    /\ cpc = "sd_join"
    /\ cpc' = "done"
    /\ UNCHANGED <<stop_event, play_queue, current_stream, wpc, file_path, open_streams,
                   stream_active, stream_finished_event, playback_interrupted, next_id,
                   n_stops, status, started, stop_log, stop_before_start, events, sd_queued,
                   callback_failed>>
    /\ UNCHANGED <<execVars, tailVars, regVars, busVars, handlerVars, parseVars, ttsVars, chunkVars, snapVars>>

\* list(self._play_queue.queue): a new list of the queue's items, oldest first
ListOfQueue(q) == [i \in 1..Len(q) |-> q[i].path]

\* get_queue_snapshot (lines 305-308): under the queue's mutex, copy the
\* underlying deque into a list and return it
GetQueueSnapshot ==
    /\ queue_snapshot' = ListOfQueue(play_queue)
    /\ UNCHANGED <<execVars, playerVars, tailVars, regVars, busVars, handlerVars, parseVars, ttsVars, chunkVars>>

\* no call has been made
SnapshotInit == queue_snapshot = <<>>

\* AudioPlayer.__init__ (lines 25-40): the worker has been started
PlayerInit ==
    /\ stop_event = FALSE
    /\ play_queue = <<>>
    /\ current_stream = 0
    /\ wpc = "top"
    /\ file_path = NoItem
    /\ open_streams = {}
    /\ stream_active = FALSE
    /\ stream_finished_event = FALSE
    /\ playback_interrupted = FALSE
    /\ cpc = "idle"
    /\ next_id = 0
    /\ n_stops = 0
    /\ status = [i \in Ids |-> "none"]
    /\ started = <<>>
    /\ stop_log = <<>>
    /\ stop_before_start = FALSE
    /\ events = <<>>
    /\ sd_queued = <<>>
    /\ callback_failed = {}

PlayerNext ==
    \/ \E path \in FilePaths \cup InvalidPaths : PlayFile(path)
    \/ \E clear_queue \in BOOLEAN : StopPlayback(clear_queue)
    \/ DrainQueue
    \/ LoopTop
    \/ QueueGet
    \/ StopCheck
    \/ OpenStream
    \/ StartStream
    \/ StreamFinished
    \/ WaitLoop
    \/ Cleanup
    \/ PlaybackError

(***************************************************************************)
(* LogFileEventHandler (src/src/log_reader.py)                             *)
(*                                                                         *)
(* The file is opened in text mode (line 54): os.path.getsize, seek and    *)
(* tell count bytes, read(n) counts characters.  The log is a sequence of  *)
(* characters, one of which takes two bytes in UTF-8.  The game appends    *)
(* whole lines and may truncate the file.  _read_new_lines is called by    *)
(* the watchdog thread (on_modified) and by the monitor thread (the poll   *)
(* of _run_observer); its steps are cut at every access to _last_size, to  *)
(* the file object and to the file.                                        *)
(***************************************************************************)
\* the lines the game writes: one with a character of two bytes (written
\* "U" here), one plain
LogLines == { <<"U", "\n">>, <<"a", "b", "\n">> }

\* the UTF-8 length of a character
Width(c) == IF c = "U" THEN 2 ELSE 1

RECURSIVE ByteLen(_)
\* os.path.getsize of a file with these characters
ByteLen(s) == IF s = <<>> THEN 0 ELSE Width(Head(s)) + ByteLen(Tail(s))

RECURSIVE NumLines(_)
NumLines(s) == IF s = <<>> THEN 0
               ELSE (IF Head(s) = "\n" THEN 1 ELSE 0) + NumLines(Tail(s))

\* the characters of s from byte offset p on; p past the end gives none
RECURSIVE CharsFrom(_, _)
CharsFrom(s, p) == IF s = <<>> \/ p <= 0 THEN s ELSE CharsFrom(Tail(s), p - Width(Head(s)))

\* byte offset p falls on the first byte of a character of s, or at or past its end
RECURSIVE IsBoundary(_, _)
IsBoundary(s, p) == IF s = <<>> \/ p = 0 THEN TRUE
                    ELSE IF p < Width(Head(s)) THEN FALSE
                    ELSE IsBoundary(Tail(s), p - Width(Head(s)))

\* file.read(n) at byte offset p: at most n characters, all of them when n < 0
ReadChars(s, p, n) ==
    LET rest == CharsFrom(s, p)
    IN  IF n < 0 \/ n >= Len(rest) THEN rest ELSE SubSeq(rest, 1, n)

\* str.splitlines on characters read at byte offset pos: each line with the
\* byte range it came from (history); cur is the line being collected
RECURSIVE SplitLines(_, _, _, _)
SplitLines(chars, pos, cur, from) ==
    IF chars = <<>>
    THEN IF cur = <<>> THEN <<>> ELSE << [text |-> cur, from |-> from, to |-> pos] >>
    ELSE IF Head(chars) = "\n"
         THEN << [text |-> cur, from |-> from, to |-> pos + 1] >>
                  \o SplitLines(Tail(chars), pos + 1, <<>>, pos + 1)
         ELSE SplitLines(Tail(chars), pos + Width(Head(chars)),
                         Append(cur, Head(chars)), from)

\* line 89: empty lines are not handed on
NonEmpty(line) == line.text # <<>>

\* the lines with the epoch of the file they were read from (history)
InEpoch(ls, e) ==
    [i \in DOMAIN ls |-> [text |-> ls[i].text, from |-> ls[i].from, to |-> ls[i].to,
                          epoch |-> e]]

Other(t) == CHOOSE u \in Publishers : u # t

\* the game appends a line to console.log
AppendLine(line) ==
    /\ NumLines(log_file) < MaxLines
    /\ log_file' = log_file \o line
    /\ UNCHANGED <<epoch, file_pos, last_size, tpc, current_size, arg, lines, n_polls,
                   reads, delivered, overlapped>>
    /\ UNCHANGED shrink_found
    /\ UNCHANGED <<execVars, playerVars, regVars, busVars, handlerVars, parseVars, ttsVars, chunkVars, snapVars>>

\* the pieces of the line "ab" when the game writes it in two writes
LogPieces == { <<"a">>, <<"b", "\n">> }

\* the game appends part of a line to console.log: the write buffer was
\* flushed in the middle of the line
AppendPiece(piece) ==
    /\ NumLines(log_file) < MaxLines
    /\ Len(log_file) < 2 * MaxLines
    /\ log_file' = log_file \o piece
    /\ UNCHANGED <<epoch, file_pos, last_size, tpc, current_size, arg, lines, n_polls,
                   reads, delivered, overlapped>>
    /\ UNCHANGED shrink_found
    /\ UNCHANGED <<execVars, playerVars, regVars, busVars, handlerVars, parseVars, ttsVars,
                   chunkVars, snapVars>>

\* the game restarts and truncates console.log
Truncate ==
    /\ epoch < MaxTruncations
    /\ log_file # <<>>
    /\ log_file' = <<>>
    /\ epoch' = epoch + 1
    /\ UNCHANGED <<file_pos, last_size, tpc, current_size, arg, lines, n_polls,
                   reads, delivered, overlapped>>
    /\ UNCHANGED shrink_found
    /\ UNCHANGED <<execVars, playerVars, regVars, busVars, handlerVars, parseVars, ttsVars, chunkVars, snapVars>>

\* _read_new_lines, lines 62-71, called from on_modified (107-111) or from
\* the poll of _run_observer (313-319): the file is open; take its size
PollSize(t) ==
    /\ tpc[t] = "idle"
    /\ n_polls < MaxPolls
    /\ n_polls' = n_polls + 1
    /\ current_size' = [current_size EXCEPT ![t] = ByteLen(log_file)]
    /\ overlapped' = (overlapped \/ tpc[Other(t)] # "idle")
    /\ tpc' = [tpc EXCEPT ![t] = "compare"]
    /\ UNCHANGED <<log_file, epoch, file_pos, last_size, arg, lines, reads, delivered>>
    /\ UNCHANGED shrink_found
    /\ UNCHANGED <<execVars, playerVars, regVars, busVars, handlerVars, parseVars, ttsVars, chunkVars, snapVars>>

\* lines 72 and 76: compare the size with _last_size
Compare(t) ==
    /\ tpc[t] = "compare"
    /\ tpc' = [tpc EXCEPT ![t] =
                  IF current_size[t] < last_size THEN "shrunk"
                  ELSE IF current_size[t] > last_size THEN "seekarg"
                  ELSE "tell"]
    /\ UNCHANGED <<log_file, epoch, file_pos, last_size, current_size, arg, lines, n_polls,
                   reads, delivered, overlapped>>
    /\ shrink_found' = IF current_size[t] < last_size
                       THEN [n |-> Len(delivered), epoch |-> epoch]
                       ELSE shrink_found
    /\ UNCHANGED <<execVars, playerVars, regVars, busVars, handlerVars, parseVars, ttsVars, chunkVars, snapVars>>

\* line 75: the file has shrunk; seek to its end
SeekEnd(t) ==
    /\ tpc[t] = "shrunk"
    /\ file_pos' = ByteLen(log_file)
    /\ tpc' = [tpc EXCEPT ![t] = "tell_shrunk"]
    /\ UNCHANGED <<log_file, epoch, last_size, current_size, arg, lines, n_polls,
                   reads, delivered, overlapped>>
    /\ UNCHANGED shrink_found
    /\ UNCHANGED <<execVars, playerVars, regVars, busVars, handlerVars, parseVars, ttsVars, chunkVars, snapVars>>

\* line 78: the argument self._last_size is evaluated
SeekArg(t) ==
    /\ tpc[t] = "seekarg"
    /\ arg' = [arg EXCEPT ![t] = last_size]
    /\ tpc' = [tpc EXCEPT ![t] = "seek"]
    /\ UNCHANGED <<log_file, epoch, file_pos, last_size, current_size, lines, n_polls,
                   reads, delivered, overlapped>>
    /\ UNCHANGED shrink_found
    /\ UNCHANGED <<execVars, playerVars, regVars, busVars, handlerVars, parseVars, ttsVars, chunkVars, snapVars>>

\* line 78: seek
Seek(t) ==
    /\ tpc[t] = "seek"
    /\ file_pos' = arg[t]
    /\ tpc' = [tpc EXCEPT ![t] = "readarg"]
    /\ UNCHANGED <<log_file, epoch, last_size, current_size, arg, lines, n_polls,
                   reads, delivered, overlapped>>
    /\ UNCHANGED shrink_found
    /\ UNCHANGED <<execVars, playerVars, regVars, busVars, handlerVars, parseVars, ttsVars, chunkVars, snapVars>>

\* line 79: the argument current_size - self._last_size is evaluated
ReadArg(t) ==
    /\ tpc[t] = "readarg"
    /\ arg' = [arg EXCEPT ![t] = current_size[t] - last_size]
    /\ tpc' = [tpc EXCEPT ![t] = "read"]
    /\ UNCHANGED <<log_file, epoch, file_pos, last_size, current_size, lines, n_polls,
                   reads, delivered, overlapped>>
    /\ UNCHANGED shrink_found
    /\ UNCHANGED <<execVars, playerVars, regVars, busVars, handlerVars, parseVars, ttsVars, chunkVars, snapVars>>

\* lines 79-86: read and split into lines.  Reading from the middle of a
\* character raises UnicodeDecodeError, which line 103 catches: the call
\* ends without line 93.  With nothing read, line 93 comes next.
Read(t) ==
    /\ tpc[t] = "read"
    /\ IF ~IsBoundary(log_file, file_pos)
       THEN /\ tpc' = [tpc EXCEPT ![t] = "idle"]
            /\ UNCHANGED <<file_pos, lines, reads>>
       ELSE LET new_content == ReadChars(log_file, file_pos, arg[t])
            IN  /\ file_pos' = file_pos + ByteLen(new_content)
                /\ lines' = [lines EXCEPT ![t] =
                                InEpoch(SelectSeq(SplitLines(new_content, file_pos, <<>>, file_pos),
                                                  NonEmpty), epoch)]
                /\ reads' = Append(reads, [epoch |-> epoch, from |-> file_pos,
                                           to |-> file_pos + ByteLen(new_content),
                                           seen |-> current_size[t],
                                           tracked |-> last_size])
                /\ tpc' = [tpc EXCEPT ![t] = IF new_content = <<>> THEN "tell" ELSE "deliver"]
    /\ UNCHANGED <<log_file, epoch, last_size, current_size, arg, n_polls, delivered,
                   overlapped>>
    /\ UNCHANGED shrink_found
    /\ UNCHANGED <<execVars, playerVars, regVars, busVars, handlerVars, parseVars, ttsVars, chunkVars, snapVars>>

\* lines 88-91: after the sleep, hand the next line to the line callback
\* (_process_line, which publishes its event before it returns)
Deliver(t) ==
    /\ tpc[t] = "deliver"
    /\ lines[t] # <<>>
    /\ delivered' = Append(delivered, Head(lines[t]))
    /\ lines' = [lines EXCEPT ![t] = Tail(lines[t])]
    /\ UNCHANGED <<log_file, epoch, file_pos, last_size, tpc, current_size, arg, n_polls,
                   reads, overlapped>>
    /\ UNCHANGED shrink_found
    /\ UNCHANGED <<execVars, playerVars, regVars, busVars, handlerVars, parseVars, ttsVars, chunkVars, snapVars>>

\* the size seen at line 71 is stored
TrackedAfterPollSize(pos, size) == size

\* line 93: what is stored is the file object's position
TrackedAfterPoll(pos, size) == pos

\* line 93: self._last_size = self._file.tell()
Tell(t) ==
    /\ \/ tpc[t] \in {"tell", "tell_shrunk"}
       \/ tpc[t] = "deliver" /\ lines[t] = <<>>
    /\ last_size' = TrackedAfterPoll(file_pos, current_size[t])
    /\ tpc' = [tpc EXCEPT ![t] = "idle"]
    /\ UNCHANGED <<log_file, epoch, file_pos, current_size, arg, lines, n_polls,
                   reads, delivered, overlapped>>
    /\ UNCHANGED shrink_found
    /\ UNCHANGED <<execVars, playerVars, regVars, busVars, handlerVars, parseVars, ttsVars, chunkVars, snapVars>>

\* LogFileEventHandler.__init__ and _open_file (lines 40-57): the file is
\* opened at its end; here the log is empty when monitoring starts
TailInit ==
    /\ log_file = <<>>
    /\ epoch = 0
    /\ file_pos = 0
    /\ last_size = 0
    /\ tpc = [t \in Publishers |-> "idle"]
    /\ current_size = [t \in Publishers |-> 0]
    /\ arg = [t \in Publishers |-> 0]
    /\ lines = [t \in Publishers |-> <<>>]
    /\ n_polls = 0
    /\ reads = <<>>
    /\ delivered = <<>>
    /\ overlapped = FALSE
    /\ shrink_found = [n |-> 0, epoch |-> 0]

TailNext ==
    \/ \E line \in LogLines : AppendLine(line)
    \/ Truncate
    \/ \E t \in Publishers :
          \/ PollSize(t)
          \/ Compare(t)
          \/ SeekEnd(t)
          \/ SeekArg(t)
          \/ Seek(t)
          \/ ReadArg(t)
          \/ Read(t)
          \/ Deliver(t)
          \/ Tell(t)

(***************************************************************************)
(* Registration of commands at run time (plugins, core commands)           *)
(***************************************************************************)
MaxAliases == 2

\* names that callers register commands under, in either letter case
NewNames == { <<"x">>, <<"X">>, <<"a">>, <<"P">> }
NewAliases == { <<"a">>, <<"A">>, <<"p">> }
NewFuncs == { "cmd_new" }

\* aliases: None or a list of names
AliasLists == UNION { [1..n -> NewAliases] : n \in 0..MaxAliases }

NoRegister == [ made |-> FALSE, name |-> <<>>, func |-> "None", aliases |-> <<>>,
                admin_only |-> FALSE, before |-> EmptyIndex, result |-> FALSE ]

\* register_command: what the call returns
RegisterResult(cmds, name, aliases) == ~RegisterConflict(cmds, name, aliases)

NoRegistryCall == [ op |-> "none", name |-> <<>>, before |-> EmptyIndex, result |-> FALSE ]
NoExec == [ name |-> NoneVal, invoked |-> FALSE ]

\* CommandManager.register_command(name, func, aliases=..., admin_only=...)
Register(name, func, aliases, admin_only) ==
    /\ commands' = RegisterCommand(commands, name, func, aliases, admin_only)
    /\ last_register' = [ made |-> TRUE, name |-> name, func |-> func, aliases |-> aliases,
                          admin_only |-> admin_only, before |-> commands,
                          result |-> RegisterResult(commands, name, aliases) ]
    /\ last_call' = NoRegistryCall
    /\ last_exec' = NoExec
    /\ UNCHANGED <<xpc, held, held_live>>
    /\ UNCHANGED <<config_admin_user, now, n_calls, last_event_time, last_event_details,
                   user_last_command_time, hpc, call, acc, pass_last>>
    /\ UNCHANGED <<playerVars, tailVars, busVars, handlerVars, parseVars, ttsVars, chunkVars, snapVars>>


\* the other exec variables, which the registry's calls leave alone
dispatchVars == <<config_admin_user, now, n_calls, last_event_time, last_event_details,
                  user_last_command_time, hpc, call, acc, pass_last>>


\* names that unregister_command, enable_command, disable_command and
\* lookups are called with: names and aliases in either letter case and a
\* name nobody registers
CalledNames ==
    { <<"p","l","a","y">>, <<"P","L","A","Y">>, <<"p">>, <<"x">>, <<"X">>, <<"a">>, <<"z">> }

\* what the scenarios register at run time
PluginNames == { <<"x">>, <<"P">> }
PluginAliasLists == { <<>>, << <<"a">> >>, << <<"A">>, <<"p">> >> }

\* names in any letter case are accepted only as they are stored
UnregisterResultExact(cmds, name) == name \in DOMAIN cmds /\ cmds[name].name = name

\* every key is accepted, an alias as well
UnregisterResultAnyKey(cmds, name) == Lower(name) \in DOMAIN cmds

\* unregister_command, lines 86-91: what the call returns
UnregisterResult(cmds, name) ==
    LET command_name == Lower(name)
    IN  command_name \in DOMAIN cmds /\ cmds[command_name].name = command_name

\* only the name is removed, the aliases stay
UnregisterCommandNameOnly(cmds, name) ==
    IF ~UnregisterResult(cmds, name) THEN cmds
    ELSE [k \in DOMAIN cmds \ {Lower(name)} |-> cmds[k]]

\* unregister_command, lines 93-100: the index after the call.  The aliases
\* are removed where they still map to the command itself
UnregisterCommand(cmds, name) ==
    IF ~UnregisterResult(cmds, name) THEN cmds
    ELSE LET command_name == Lower(name)
             command      == cmds[command_name]
             gone         == {command_name} \cup
                                 { alias \in Range(command.aliases) :
                                       alias \in DOMAIN cmds /\ cmds[alias] = command }
         IN  [k \in DOMAIN cmds \ gone |-> cmds[k]]

\* the flag is set in the entry of the one key only
SetEnabledKeyOnly(cmds, name, flag) ==
    IF Lower(name) \notin DOMAIN cmds THEN cmds
    ELSE [cmds EXCEPT ![Lower(name)].enabled = flag]

\* enable_command and disable_command, lines 121-137: command.enabled is set
\* on the Command object, which every key of the command maps to (the
\* entries of one object are the entries with equal fields)
SetEnabled(cmds, name, flag) ==
    LET command == GetCommand(cmds, name)
    IN  IF command = NoCommand THEN cmds
        ELSE [k \in DOMAIN cmds |->
                 IF cmds[k] = command THEN [command EXCEPT !.enabled = flag] ELSE cmds[k]]

\* the handler is called whatever the flag
ExecuteGateOpen(command) == TRUE

\* Command.execute, line 27: if not self.enabled: return
ExecuteGate(command) == command.enabled

\* the thread's Command after a call of the registry: the flag of the object
\* it holds changes when the object is still the one in the index
HeldAfter(cmds) ==
    IF held_live /\ held # NoCommand /\ held.name \in DOMAIN cmds
    THEN cmds[held.name] ELSE held

\* CommandManager.unregister_command(name)
Unregister(name) ==
    /\ commands' = UnregisterCommand(commands, name)
    /\ last_call' = [ op |-> "unregister", name |-> name, before |-> commands,
                      result |-> UnregisterResult(commands, name) ]
    /\ held_live' = (held_live /\ held # NoCommand /\ held.name \in DOMAIN commands')
    /\ last_register' = NoRegister
    /\ last_exec' = NoExec
    /\ UNCHANGED <<xpc, held>>
    /\ UNCHANGED dispatchVars
    /\ UNCHANGED <<playerVars, tailVars, busVars, handlerVars, parseVars, ttsVars, chunkVars, snapVars>>

\* CommandManager.enable_command(name)
Enable(name) ==
    /\ commands' = SetEnabled(commands, name, TRUE)
    /\ last_call' = [ op |-> "enable", name |-> name, before |-> commands,
                      result |-> GetCommand(commands, name) # NoCommand ]
    /\ held' = HeldAfter(commands')
    /\ last_register' = NoRegister
    /\ last_exec' = NoExec
    /\ UNCHANGED <<xpc, held_live>>
    /\ UNCHANGED dispatchVars
    /\ UNCHANGED <<playerVars, tailVars, busVars, handlerVars, parseVars, ttsVars, chunkVars, snapVars>>

\* CommandManager.disable_command(name)
Disable(name) ==
    /\ commands' = SetEnabled(commands, name, FALSE)
    /\ last_call' = [ op |-> "disable", name |-> name, before |-> commands,
                      result |-> GetCommand(commands, name) # NoCommand ]
    /\ held' = HeldAfter(commands')
    /\ last_register' = NoRegister
    /\ last_exec' = NoExec
    /\ UNCHANGED <<xpc, held_live>>
    /\ UNCHANGED dispatchVars
    /\ UNCHANGED <<playerVars, tailVars, busVars, handlerVars, parseVars, ttsVars, chunkVars, snapVars>>

\* executor.py lines 91-107: the command is looked up and a thread is
\* started with cmd_obj.execute as its target
StartExecute(name) ==
    /\ xpc = "idle"
    /\ GetCommand(commands, name) # NoCommand
    /\ held' = GetCommand(commands, name)
    /\ held_live' = TRUE
    /\ xpc' = "check"
    /\ UNCHANGED <<last_register, last_call, last_exec>>
    /\ UNCHANGED execVars
    /\ UNCHANGED <<playerVars, tailVars, busVars, handlerVars, parseVars, ttsVars, chunkVars, snapVars>>

\* Command.execute, lines 27-30: a disabled command is logged and left
ExecuteCheck ==
    /\ xpc = "check"
    /\ IF ExecuteGate(held)
       THEN /\ xpc' = "call"
            /\ UNCHANGED <<last_register, last_call, last_exec>>
       ELSE /\ xpc' = "idle"
            /\ last_exec' = [ name |-> held.name, invoked |-> FALSE ]
            /\ last_register' = NoRegister
            /\ last_call' = NoRegistryCall
    /\ UNCHANGED <<held, held_live>>
    /\ UNCHANGED execVars
    /\ UNCHANGED <<playerVars, tailVars, busVars, handlerVars, parseVars, ttsVars, chunkVars, snapVars>>

\* Command.execute, lines 38-42: the handler is called
ExecuteCall ==
    /\ xpc = "call"
    /\ xpc' = "idle"
    /\ last_exec' = [ name |-> held.name, invoked |-> TRUE ]
    /\ last_register' = NoRegister
    /\ last_call' = NoRegistryCall
    /\ UNCHANGED <<held, held_live>>
    /\ UNCHANGED execVars
    /\ UNCHANGED <<playerVars, tailVars, busVars, handlerVars, parseVars, ttsVars, chunkVars, snapVars>>

RegistryInit ==
    /\ last_register = NoRegister
    /\ last_call = NoRegistryCall
    /\ xpc = "idle"
    /\ held = NoCommand
    /\ held_live = FALSE
    /\ last_exec = NoExec

\* the registry with every call of its interface and one executing thread
RegistryOpsNext ==
    \/ \E name \in PluginNames, aliases \in PluginAliasLists :
           Register(name, "cmd_new", aliases, FALSE)
    \/ \E name \in CalledNames : Unregister(name)
    \/ \E name \in CalledNames : Enable(name)
    \/ \E name \in CalledNames : Disable(name)
    \/ \E name \in CalledNames : StartExecute(name)
    \/ ExecuteCheck
    \/ ExecuteCall

RegistryNext ==
    \E name \in NewNames, func \in NewFuncs, aliases \in AliasLists, admin_only \in BOOLEAN :
        Register(name, func, aliases, admin_only)

(***************************************************************************)
(* EventBus (src/src/event_bus.py)                                         *)
(***************************************************************************)
MaxSubs == 2

Topics == { "t", "u" }
Callbacks == { "h1", "h2" }
\* an object that is not callable
NotCallable == "<int>"
Payloads == { "m1", "m2" }

\* what a callback does when it is called: it returns, it raises an
\* Exception, or it subscribes or unsubscribes a callback and returns
Effects ==
    { [kind |-> k, topic |-> "t", callback |-> "h1"] : k \in {"return", "raise"} }
        \cup { [kind |-> k, topic |-> tp, callback |-> h] :
                   k \in {"subscribe", "unsubscribe"}, tp \in Topics, h \in Callbacks }

\* the list of a topic; self._subscribers is a defaultdict(list)
ListOf(subs, topic) == IF topic \in DOMAIN subs THEN subs[topic] ELSE <<>>

\* list.remove: the first occurrence is removed
RECURSIVE RemoveFirst(_, _)
RemoveFirst(list, h) ==
    IF list = <<>> THEN <<>>
    ELSE IF Head(list) = h THEN Tail(list)
    ELSE <<Head(list)>> \o RemoveFirst(Tail(list), h)

\* subscribe, lines 14-21
SubscribeTo(subs, topic, h) ==
    IF h = NotCallable THEN subs
    ELSE [tp \in DOMAIN subs \cup {topic} |->
             IF tp = topic THEN Append(ListOf(subs, topic), h) ELSE subs[tp]]

\* unsubscribe, lines 23-35
UnsubscribeFrom(subs, topic, h) ==
    IF topic \notin DOMAIN subs THEN subs
    ELSE IF h \notin Range(subs[topic]) THEN subs
    ELSE LET rest == RemoveFirst(subs[topic], h)
         IN  IF rest = <<>> THEN [tp \in DOMAIN subs \ {topic} |-> subs[tp]]
             ELSE [subs EXCEPT ![topic] = rest]

\* the subscriber lists after a callback has done what it does
AfterEffect(subs, e) ==
    CASE e.kind = "subscribe"   -> SubscribeTo(subs, e.topic, e.callback)
      [] e.kind = "unsubscribe" -> UnsubscribeFrom(subs, e.topic, e.callback)
      [] OTHER                  -> subs

\* the for loop runs over the list itself
IterListLive(copy, live) == live

\* line 45: the for loop runs over the copy
IterList(copy, live) == copy

\* an exception of a callback leaves publish
PropagatesAlways(e) == e.kind = "raise"

\* lines 46-51: except Exception: the error is logged
Propagates(e) == FALSE

\* EventBus.subscribe(event_type, callback), called outside a publish
Subscribe(topic, h) ==
    /\ ppc = "idle"
    /\ Len(ListOf(subscribers, topic)) < MaxSubs
    /\ subscribers' = SubscribeTo(subscribers, topic, h)
    /\ UNCHANGED <<ppc, ptopic, payload, snapshot, idx, called, at_begin, raised_at>>
    /\ UNCHANGED <<execVars, playerVars, tailVars, regVars, handlerVars, parseVars, ttsVars, chunkVars, snapVars>>

\* EventBus.unsubscribe(event_type, callback), called outside a publish
Unsubscribe(topic, h) ==
    /\ ppc = "idle"
    /\ subscribers' = UnsubscribeFrom(subscribers, topic, h)
    /\ UNCHANGED <<ppc, ptopic, payload, snapshot, idx, called, at_begin, raised_at>>
    /\ UNCHANGED <<execVars, playerVars, tailVars, regVars, handlerVars, parseVars, ttsVars, chunkVars, snapVars>>

\* EventBus.publish(event_type, payload), lines 37-45: without subscribers
\* the call returns, else the list is copied
PublishBegin(topic, p) ==
    /\ ppc = "idle"
    /\ ptopic' = topic
    /\ payload' = p
    /\ called' = <<>>
    /\ raised_at' = {}
    /\ at_begin' = ListOf(subscribers, topic)
    /\ idx' = 1
    /\ IF topic \notin DOMAIN subscribers
       THEN /\ ppc' = "idle"
            /\ snapshot' = <<>>
       ELSE /\ ppc' = "iter"
            /\ snapshot' = subscribers[topic]
    /\ UNCHANGED subscribers
    /\ UNCHANGED <<execVars, playerVars, tailVars, regVars, handlerVars, parseVars, ttsVars, chunkVars, snapVars>>

\* lines 45-51: the next callback is called with the payload and does e
CallHandler(e) ==
    /\ ppc = "iter"
    /\ idx <= Len(IterList(snapshot, ListOf(subscribers, ptopic)))
    /\ e.kind = "subscribe" => Len(ListOf(subscribers, e.topic)) < MaxSubs
    /\ called' = Append(called, [ callback |-> IterList(snapshot, ListOf(subscribers, ptopic))[idx],
                                  payload  |-> payload ])
    /\ subscribers' = AfterEffect(subscribers, e)
    /\ raised_at' = IF e.kind = "raise" THEN raised_at \cup {idx} ELSE raised_at
    /\ IF Propagates(e)
       THEN /\ ppc' = "raised"
            /\ UNCHANGED idx
       ELSE /\ idx' = idx + 1
            /\ UNCHANGED ppc
    /\ UNCHANGED <<ptopic, payload, snapshot, at_begin>>
    /\ UNCHANGED <<execVars, playerVars, tailVars, regVars, handlerVars, parseVars, ttsVars, chunkVars, snapVars>>

\* the for loop is over: publish returns
PublishEnd ==
    /\ ppc = "iter"
    /\ idx > Len(IterList(snapshot, ListOf(subscribers, ptopic)))
    /\ ppc' = "idle"
    /\ UNCHANGED <<subscribers, ptopic, payload, snapshot, idx, called, at_begin, raised_at>>
    /\ UNCHANGED <<execVars, playerVars, tailVars, regVars, handlerVars, parseVars, ttsVars, chunkVars, snapVars>>

\* EventBus.__init__
BusInit ==
    /\ subscribers = [tp \in {} |-> <<>>]
    /\ ppc = "idle"
    /\ ptopic = "t"
    /\ payload = "m1"
    /\ snapshot = <<>>
    /\ idx = 1
    /\ called = <<>>
    /\ at_begin = <<>>
    /\ raised_at = {}

BusNext ==
    \/ \E topic \in Topics, h \in Callbacks \cup {NotCallable} : Subscribe(topic, h)
    \/ \E topic \in Topics, h \in Callbacks : Unsubscribe(topic, h)
    \/ \E topic \in Topics, p \in Payloads : PublishBegin(topic, p)
    \/ \E e \in Effects : CallHandler(e)
    \/ PublishEnd

(***************************************************************************)
(* LogReader._process_line (src/src/log_reader.py)                         *)
(***************************************************************************)
MaxTags == 2

EVENT_CHAT_RECEIVED == "chat_received"
EVENT_COMMAND_DETECTED == "command_detected"
EVENT_PLAYER_KILL == "player_kill"
EVENT_UNDEFINED_MESSAGE == "undefined_message"

\* line 200
possible_tags ==
    << <<"*", "D", "E", "A", "D", "*">>, <<"*", "T", "E", "A", "M", "*">>, <<"[", "T", "E", "A", "M", "]">>,
       <<"*", "S", "P", "E", "C", "*">>, <<"[", "S", "P", "E", "C", "]">>, <<"[", "D", "E", "A", "D", "]">> >>

\* p occurs in s at position i
Occurs(s, p, i) == i >= 1 /\ i + Len(p) - 1 <= Len(s) /\ SubSeq(s, i, i + Len(p) - 1) = p

\* str.startswith
StartsWith(s, p) == Occurs(s, p, 1)

\* s from position i on
From(s, i) == SubSeq(s, i, Len(s))

IsDigit(c) == c \in {"0", "1", "2", "3", "4", "5", "6", "7", "8", "9"}

\* \d+ from position i: the position after the digits
RECURSIVE DigitsEnd(_, _)
DigitsEnd(s, i) == IF i <= Len(s) /\ IsDigit(s[i]) THEN DigitsEnd(s, i + 1) ELSE i

Teams == << <<"R", "e", "d">>, <<"B", "l", "u", "e">>,
            <<"S", "p", "e", "c", "t", "a", "t", "o", "r">>,
            <<"C", "o", "n", "s", "o", "l", "e">> >>

Sep == <<" ", ":", " ">>

NoMatch == [ ok |-> FALSE, user |-> <<>>, steamid |-> NoneVal, team |-> NoneVal,
             message |-> <<>> ]

\* CHAT_REGEX_FULL from its "<" on, at position p:
\* <(U:\d+:\d+)>(?:<(Red|Blue|Spectator|Console)>)? : (.+)$
FullRest(s, p) ==
    LET a == p + 3
        b == DigitsEnd(s, a)
        c == b + 1
        d == DigitsEnd(s, c)
        e == d + 1
        id_ok == /\ Occurs(s, <<"<", "U", ":">>, p)
                 /\ b > a /\ Occurs(s, <<":">>, b)
                 /\ d > c /\ Occurs(s, <<">">>, d)
        with_team == { i \in DOMAIN Teams :
                          /\ Occurs(s, <<"<">> \o Teams[i] \o <<">">> \o Sep, e)
                          /\ Len(s) >= e + Len(Teams[i]) + 5 }
    IN  IF ~id_ok THEN NoMatch
        ELSE IF with_team # {}
        THEN LET i == CHOOSE i \in with_team : TRUE
             IN  [ ok |-> TRUE, user |-> <<>>, steamid |-> SubSeq(s, p + 1, d - 1),
                   team |-> Teams[i], message |-> From(s, e + Len(Teams[i]) + 5) ]
        ELSE IF Occurs(s, Sep, e) /\ Len(s) >= e + 3
        THEN [ ok |-> TRUE, user |-> <<>>, steamid |-> SubSeq(s, p + 1, d - 1),
               team |-> NoneVal, message |-> From(s, e + 3) ]
        ELSE NoMatch

\* the length of the optional beginning (?:\*?(?:DEAD|TEAM|SPEC)\*? )? of
\* CHAT_REGEX_FULL, 0 when the line does not begin with it
FullPrefixLen(s) ==
    LET star == IF StartsWith(s, <<"*">>) THEN 1 ELSE 0
        word == \/ Occurs(s, <<"D", "E", "A", "D">>, star + 1)
                \/ Occurs(s, <<"T", "E", "A", "M">>, star + 1)
                \/ Occurs(s, <<"S", "P", "E", "C">>, star + 1)
        end  == IF Occurs(s, <<"*">>, star + 5) THEN star + 5 ELSE star + 4
    IN  IF word /\ Occurs(s, <<" ">>, end + 1) THEN end + 1 ELSE 0

\* the user group (.+?) after a beginning of length k: the shortest one that
\* the rest of the pattern matches behind; 0 when there is none
FullUserLen(s, k) ==
    LET lens == { u \in 1..Len(s) : FullRest(s, k + u + 1).ok }
    IN  IF lens = {} THEN 0 ELSE CHOOSE u \in lens : \A v \in lens : u <= v

\* CHAT_REGEX_FULL.match(line): the optional beginning is tried first
MatchFull(s) ==
    LET k  == FullPrefixLen(s)
        u1 == IF k > 0 THEN FullUserLen(s, k) ELSE 0
        u0 == FullUserLen(s, 0)
    IN  IF u1 > 0 THEN [FullRest(s, k + u1 + 1) EXCEPT !.user = SubSeq(s, k + 1, k + u1)]
        ELSE IF u0 > 0 THEN [FullRest(s, u0 + 1) EXCEPT !.user = SubSeq(s, 1, u0)]
        ELSE NoMatch

\* CHAT_REGEX_SIMPLE.match(line): ^([^:]+?) : (.+)$
MatchSimple(s) ==
    LET colons == { i \in DOMAIN s : s[i] = ":" }
    IN  IF colons = {} THEN NoMatch
        ELSE LET i == CHOOSE i \in colons : \A j \in colons : i <= j
             IN  IF i >= 3 /\ Occurs(s, Sep, i - 1) /\ Len(s) >= i + 2
                 THEN [ ok |-> TRUE, user |-> SubSeq(s, 1, i - 2), steamid |-> NoneVal,
                        team |-> NoneVal, message |-> From(s, i + 2) ]
                 ELSE NoMatch

Killed == <<" ", "k", "i", "l", "l", "e", "d", " ">>
With == <<" ", "w", "i", "t", "h", " ">>
Crit == <<" ", "(", "c", "r", "i", "t", ")">>

\* KILL_REGEX.match(line): ^(.+?) killed (.+?) with (.+?)\.(?: \(crit\))?$
MatchKill(s) ==
    LET body == IF Len(s) > Len(Crit) /\ Occurs(s, Crit, Len(s) - Len(Crit) + 1)
                   /\ Occurs(s, <<".">>, Len(s) - Len(Crit))
                THEN {Len(s) - Len(Crit) - 1} ELSE {}
        ends == body \cup (IF s # <<>> /\ s[Len(s)] = "." THEN {Len(s) - 1} ELSE {})
    IN  \E n \in ends : \E i, j \in 1..n :
            /\ i >= 2
            /\ Occurs(s, Killed, i)
            /\ j >= i + Len(Killed) + 1
            /\ Occurs(s, With, j)
            /\ j + Len(With) <= n

\* lines 205-227, one pass of the while loop: the first tag of possible_tags
\* that the name starts with is cut off, with the blank behind it
StripPass(name) ==
    LET hits == { i \in DOMAIN possible_tags : StartsWith(name, possible_tags[i]) }
    IN  IF hits = {} THEN [ found |-> FALSE, tag |-> <<>>, name |-> name ]
        ELSE LET i   == CHOOSE i \in hits : \A j \in hits : i <= j
                 tag == possible_tags[i]
             IN  IF StartsWith(name, tag \o <<" ">>)
                 THEN [ found |-> TRUE, tag |-> tag, name |-> Strip(From(name, Len(tag) + 2)) ]
                 ELSE [ found |-> TRUE, tag |-> tag, name |-> Strip(From(name, Len(tag) + 1)) ]

\* the while loop is left after its first pass
LoopEndsAfterOnePass(r, name) == TRUE

\* lines 229-234: the loop is left when the pass found no tag, or when it
\* left the name as it was
LoopEnds(r, name) == ~r.found \/ r.name = name

\* lines 203-234, the whole while loop
RECURSIVE StripTags(_)
StripTags(name) ==
    LET r == StripPass(name)
    IN  IF LoopEnds(r, name) THEN r.name ELSE StripTags(r.name)

\* str.split(): the words between runs of whitespace
RECURSIVE SplitWords(_, _)
SplitWords(s, cur) ==
    IF s = <<>> THEN (IF cur = <<>> THEN <<>> ELSE <<cur>>)
    ELSE IF IsSpace(Head(s))
         THEN (IF cur = <<>> THEN <<>> ELSE <<cur>>) \o SplitWords(Tail(s), <<>>)
         ELSE SplitWords(Tail(s), Append(cur, Head(s)))

\* message.split(maxsplit=1): the first word and what follows the
\* whitespace behind it
RECURSIVE FirstWordLen(_)
FirstWordLen(s) == IF s = <<>> \/ IsSpace(Head(s)) THEN 0 ELSE 1 + FirstWordLen(Tail(s))

\* a message that is the prefix alone counts as a command too
ChatEventBangAlone(user_info, msg) ==
    IF StartsWith(msg, <<"!">>)
    THEN LET n        == FirstWordLen(msg)
             command  == SubSeq(msg, 1, n)
             args_str == Strip(From(msg, n + 1))
         IN  [ type |-> EVENT_COMMAND_DETECTED, user |-> user_info, command |-> command,
               args |-> SplitWords(args_str, <<>>) ]
    ELSE [ type |-> EVENT_CHAT_RECEIVED, user |-> user_info, message |-> msg ]

\* lines 246-261: the event of a chat line
ChatEvent(user_info, msg) ==
    IF StartsWith(msg, <<"!">>) /\ Len(msg) > 1
    THEN LET n        == FirstWordLen(msg)
             command  == SubSeq(msg, 1, n)
             args_str == Strip(From(msg, n + 1))
         IN  [ type |-> EVENT_COMMAND_DETECTED, user |-> user_info, command |-> command,
               args |-> SplitWords(args_str, <<>>) ]
    ELSE [ type |-> EVENT_CHAT_RECEIVED, user |-> user_info, message |-> msg ]

\* the lines the game writes: user fields with status tags in front, chat
\* in both formats, kills and lines of no known format
TagPieces == { <<"*", "D", "E", "A", "D", "*", " ">>, <<"*", "D", "E", "A", "D", "*">>,
               <<"[", "T", "E", "A", "M", "]", " ">>, <<"*", "S", "P", "E", "C", "*">> }
BaseNames == { <<>>, <<"b", "o", "b">>, <<"x", " ", "[", "D", "E", "A", "D", "]">> }
Middles == { <<>>, Sep, <<"<", "U", ":", "1", ":", "2", ">", " ", ":", " ">>,
             <<"<", "U", ":", "1", "2", ":", "3", ">", "<", "R", "e", "d", ">", " ", ":", " ">>, Killed }
Tails == { <<"h", "i">>, <<"!", "p", "l", "a", "y", " ", "a", " ", " ", "b">>,
           <<"!">>, <<"x", " ", "w", "i", "t", "h", " ", "y", ".">>, <<" ">> }

RECURSIVE Concat(_)
Concat(ss) == IF ss = <<>> THEN <<>> ELSE Head(ss) \o Concat(Tail(ss))

UserFields ==
    { Concat(tags) \o base :
          tags \in UNION { [1..n -> TagPieces] : n \in 0..MaxTags }, base \in BaseNames }

LogFileLines == { u \o m \o t : u \in UserFields, m \in Middles, t \in Tails }

\* lines 162-197: the chat formats are tried, the full one first
MatchLine ==
    /\ lpc = "start"
    /\ LET m == IF MatchFull(log_line).ok THEN MatchFull(log_line) ELSE MatchSimple(log_line)
       IN  IF m.ok
           THEN /\ raw_user_name' = Strip(m.user)
                /\ cur_user_name' = Strip(m.user)
                /\ message' = Strip(m.message)
                /\ steamid' = m.steamid
                /\ team' = m.team
                /\ lpc' = "strip"
           ELSE /\ lpc' = "other"
                /\ UNCHANGED <<raw_user_name, cur_user_name, message, steamid, team>>
    /\ UNCHANGED <<log_line, stripped_tags, n_passes, published>>
    /\ UNCHANGED <<execVars, playerVars, tailVars, regVars, busVars, handlerVars, ttsVars, chunkVars, snapVars>>

\* lines 203-234: one pass of the while loop
StripStep ==
    /\ lpc = "strip"
    /\ LET r == StripPass(cur_user_name)
       IN  /\ cur_user_name' = r.name
           /\ stripped_tags' = IF r.found THEN Append(stripped_tags, r.tag) ELSE stripped_tags
           /\ lpc' = IF LoopEnds(r, cur_user_name) THEN "named" ELSE "strip"
    /\ n_passes' = n_passes + 1
    /\ UNCHANGED <<log_line, raw_user_name, message, steamid, team, published>>
    /\ UNCHANGED <<execVars, playerVars, tailVars, regVars, busVars, handlerVars, ttsVars, chunkVars, snapVars>>

\* lines 236-262: without a name left the line is given up; else the
\* command or chat event is published
PublishChat ==
    /\ lpc = "named"
    /\ lpc' = "done"
    /\ published' =
           IF cur_user_name = <<>> THEN published
           ELSE Append(published,
                       ChatEvent([ name |-> cur_user_name, steamid |-> steamid,
                                   tags |-> stripped_tags, team |-> team ], message))
    /\ UNCHANGED <<log_line, raw_user_name, cur_user_name, message, steamid, team, stripped_tags,
                   n_passes>>
    /\ UNCHANGED <<execVars, playerVars, tailVars, regVars, busVars, handlerVars, ttsVars, chunkVars, snapVars>>

\* lines 264-274: the kill pattern, else undefined_message with the line
PublishOther ==
    /\ lpc = "other"
    /\ lpc' = "done"
    /\ published' = Append(published,
                           IF MatchKill(log_line) THEN [ type |-> EVENT_PLAYER_KILL, message |-> log_line ]
                           ELSE [ type |-> EVENT_UNDEFINED_MESSAGE, message |-> log_line ])
    /\ UNCHANGED <<log_line, raw_user_name, cur_user_name, message, steamid, team, stripped_tags,
                   n_passes>>
    /\ UNCHANGED <<execVars, playerVars, tailVars, regVars, busVars, handlerVars, ttsVars, chunkVars, snapVars>>

\* LogReader.__init__: no line has been handed to _process_line yet
ParserInit ==
    /\ log_line = <<>>
    /\ lpc = "idle"
    /\ raw_user_name = NoneVal
    /\ cur_user_name = NoneVal
    /\ message = NoneVal
    /\ steamid = NoneVal
    /\ team = NoneVal
    /\ stripped_tags = <<>>
    /\ n_passes = 0
    /\ published = <<>>

\* the line callback is called with a line (log_reader.py:91)
ProcessLine(l) ==
    /\ lpc = "idle"
    /\ log_line' = l
    /\ lpc' = "start"
    /\ UNCHANGED <<raw_user_name, cur_user_name, message, steamid, team, stripped_tags,
                   n_passes, published>>
    /\ UNCHANGED <<execVars, playerVars, tailVars, regVars, busVars, handlerVars, ttsVars, chunkVars, snapVars>>

ParserNext ==
    \/ \E l \in LogFileLines : ProcessLine(l)
    \/ MatchLine
    \/ StripStep
    \/ PublishChat
    \/ PublishOther

(***************************************************************************)
(* cmd_tts (src/src/core_commands.py)                                      *)
(*                                                                         *)
(* The handler starts a thread that synthesises the speech, saves it as    *)
(* MP3, converts it to WAV and plays the WAV.  Each library call either    *)
(* succeeds or fails; the failures are caught inside the thread.           *)
(***************************************************************************)
\* the argument lists of the command
TtsArgs == { <<>>, << <<"h", "i">> >> }

\* the file boosted_sound.export writes
TtsWav == "tts.wav"

\* lines 203-217 and 301-302: without text the handler returns; else it
\* joins the words and starts the thread
CmdTts(args) ==
    /\ tts_pc = "idle"
    /\ IF args = <<>>
       THEN /\ tts_pc' = "done"
            /\ tts_result' = "no_text"
            /\ UNCHANGED text_to_speak
       ELSE /\ tts_pc' = "generate"
            /\ text_to_speak' = args
            /\ UNCHANGED tts_result
    /\ UNCHANGED <<wav_file_path, direct_stream>>
    /\ UNCHANGED <<execVars, playerVars, tailVars, regVars, busVars, handlerVars, parseVars, chunkVars, snapVars>>

\* lines 224-235 and 284-298: gTTS and tts.save; an error, or a file that
\* is not there afterwards, ends the thread
TtsGenerate(outcome) ==
    /\ tts_pc = "generate"
    /\ IF outcome = "ok"
       THEN tts_pc' = "convert" /\ UNCHANGED tts_result
       ELSE tts_pc' = "done" /\ tts_result' = outcome
    /\ UNCHANGED <<text_to_speak, wav_file_path, direct_stream>>
    /\ UNCHANGED <<execVars, playerVars, tailVars, regVars, busVars, handlerVars, parseVars, chunkVars, snapVars>>

\* lines 238-249 and 271-282: AudioSegment.from_mp3 and export; an error, or
\* a WAV file that is not there afterwards, ends the thread
TtsConvert(outcome) ==
    /\ tts_pc = "convert"
    /\ IF outcome = "ok"
       THEN /\ tts_pc' = "play"
            /\ wav_file_path' = TtsWav
            /\ UNCHANGED tts_result
       ELSE /\ tts_pc' = "done"
            /\ tts_result' = outcome
            /\ UNCHANGED wav_file_path
    /\ UNCHANGED <<text_to_speak, direct_stream>>
    /\ UNCHANGED <<execVars, playerVars, tailVars, regVars, busVars, handlerVars, parseVars, chunkVars, snapVars>>

\* lines 253-261: the thread reads the WAV and plays it itself with
\* sd.play(data, samplerate, blocking=True, device=device_id); nothing is
\* handed to the AudioPlayer.  An error of sf.read or sd.play is caught
\* (lines 268-269).
TtsPlay(outcome) ==
    /\ tts_pc = "play"
    /\ IF outcome = "ok"
       THEN /\ tts_pc' = "playing"
            /\ direct_stream' = TRUE
            /\ UNCHANGED tts_result
       ELSE /\ tts_pc' = "done"
            /\ tts_result' = outcome
            /\ UNCHANGED direct_stream
    /\ UNCHANGED <<text_to_speak, wav_file_path>>
    /\ UNCHANGED <<execVars, playerVars, tailVars, regVars, busVars, handlerVars, parseVars, chunkVars, snapVars>>

\* lines 261-267: sd.play returns when the WAV has been played; the file is
\* removed
TtsPlayed ==
    /\ tts_pc = "playing"
    /\ tts_pc' = "done"
    /\ direct_stream' = FALSE
    /\ tts_result' = "played"
    /\ UNCHANGED <<text_to_speak, wav_file_path>>
    /\ UNCHANGED <<execVars, playerVars, tailVars, regVars, busVars, handlerVars, parseVars, chunkVars, snapVars>>

\* no !tts command has been handled yet
TtsInit ==
    /\ tts_pc = "idle"
    /\ text_to_speak = NoneVal
    /\ wav_file_path = "None"
    /\ direct_stream = FALSE
    /\ tts_result = "none"

\* the !tts command beside the playback engine
TtsNext ==
    \/ PlayerNext
    \/ \E args \in TtsArgs : CmdTts(args)
    \/ \E outcome \in {"ok", "gtts_error", "no_mp3"} : TtsGenerate(outcome)
    \/ \E outcome \in {"ok", "convert_error", "no_wav"} : TtsConvert(outcome)
    \/ \E outcome \in {"ok", "play_error"} : TtsPlay(outcome)
    \/ TtsPlayed

\* the engine with the shutdown of main's finally block
ShutdownNext ==
    \/ PlayerNext
    \/ Shutdown
    \/ ShutdownSetStop
    \/ ShutdownPutSentinel
    \/ ShutdownJoin

\* nothing has been appended to the log yet
ChunkInit ==
    /\ chunk = <<>>
    /\ dpos = [t \in Publishers |-> 0]

\* the Dispatcher with a user who sends commands during the cool-down
CooldownNext ==
    \/ \E t \in Publishers, e \in CooldownEvents, d \in CooldownDeltas :
           Attempt(t, e[1], e[2], e[3], d)
    \/ \E t \in Publishers : RateLimitCheck(t)
    \/ \E t \in Publishers : RateLimitRecord(t)
    \/ \E t \in Publishers : Return(t)

\* the Dispatcher with a user who names commands that are unknown, reserved
\* to the administrator or disabled
LookupEvents == { << <<"b">>, <<"!", "p">>, <<>> >>,
                  << <<"b">>, <<"!", "x">>, <<>> >>,
                  << <<"b">>, <<"!", "s">>, <<>> >> }

LookupNext ==
    \/ \E t \in Publishers, e \in LookupEvents, d \in CooldownDeltas :
           Attempt(t, e[1], e[2], e[3], d)
    \/ \E t \in Publishers : RateLimitCheck(t)
    \/ \E t \in Publishers : RateLimitRecord(t)
    \/ \E t \in Publishers : Return(t)
    \/ Disable(<<"p">>)
    \/ Enable(<<"p">>)

\* the Dispatcher when both publisher threads deliver the appended lines
DoubleNext ==
    \/ \E c \in Chunks : AppendChunk(c)
    \/ \E t \in Publishers : DeliverCommand(t)
    \/ \E t \in Publishers : RateLimitCheck(t)
    \/ \E t \in Publishers : RateLimitRecord(t)
    \/ \E t \in Publishers : Return(t)

\* no command has been dispatched yet
HandlerInit == threads = <<>>

\* the program after construction (RequestiPy.__init__)
Init ==
    ExecInit /\ PlayerInit /\ TailInit /\ RegistryInit /\ BusInit /\ HandlerInit /\ ParserInit
        /\ TtsInit /\ ChunkInit /\ SnapshotInit

\* the Dispatcher with the threads of the handlers: a handler returns, raises
\* or stays where it is (it blocks).  The commands are those of one user who
\* may be the administrator and of another who is not; an event follows the
\* previous one at once or after the rate limit has run out.
HandlerEvents == { << <<"a">>, <<"!", "p">>, <<>> >>,
                   << <<"a">>, <<"!", "S">>, <<>> >>,
                   << <<"b">>, <<"!", "p">>, <<>> >> }
HandlerDeltas == { 1, NON_ADMIN_RATE_LIMIT_SECONDS }

HandlerNext ==
    \/ \E t \in Publishers, e \in HandlerEvents, d \in HandlerDeltas :
           DuplicateCheck(t, e[1], e[2], e[3], d)
    \/ \E t \in Publishers : RateLimitCheck(t)
    \/ \E t \in Publishers : RateLimitRecord(t)
    \/ \E t \in Publishers : Return(t)
    \/ \E i \in DOMAIN threads : HandlerReturn(i)
    \/ \E i \in DOMAIN threads : HandlerRaise(i)

SpecHandlers == Init /\ [][HandlerNext]_vars

\* the Dispatcher alone: the engine stays as constructed
SpecExec == Init /\ [][ExecNext]_vars

\* the playback engine alone: the Dispatcher stays as constructed
SpecPlayer == Init /\ [][PlayerNext]_vars

\* the steps of the playback thread
Worker ==
    \/ LoopTop
    \/ QueueGet
    \/ StopCheck
    \/ OpenStream
    \/ StartStream
    \/ WaitLoop
    \/ Cleanup
    \/ PlaybackError

\* the playback engine with its thread scheduled again and again and every
\* started stream coming to its end (a sound file is finite); the Dispatcher
\* takes no step, so one configuration of it is enough
NoAdminInit == Init /\ config_admin_user = NoneVal

SpecPlayerFair ==
    NoAdminInit /\ [][PlayerNext]_vars /\ WF_vars(Worker) /\ WF_vars(StreamFinished)

\* polls that follow one another (every call is made by the monitor thread)
\* on a file that only grows
SeqNext ==
    \/ \E line \in LogLines : AppendLine(line)
    \/ PollSize("monitor")
    \/ Compare("monitor")
    \/ SeekArg("monitor")
    \/ Seek("monitor")
    \/ ReadArg("monitor")
    \/ Read("monitor")
    \/ Deliver("monitor")
    \/ Tell("monitor")

SpecTailerSeq == NoAdminInit /\ [][SeqNext]_vars

\* polls that follow one another on a file the game writes in pieces
PartialNext ==
    \/ SeqNext
    \/ \E piece \in LogPieces : AppendPiece(piece)

SpecPartial == NoAdminInit /\ [][PartialNext]_vars

\* the log tailer alone, with one configuration of the Dispatcher
SpecTailer == NoAdminInit /\ [][TailNext]_vars

\* the playback engine playing files that may fail to decode half-way
SpecPlayerDecode == Init /\ [][PlayerNext \/ CallbackError]_vars

\* the playback engine and its shutdown
SpecShutdown == Init /\ [][ShutdownNext]_vars

\* the engine and its shutdown with a caller that takes snapshots of the queue
SnapshotNext == ShutdownNext \/ GetQueueSnapshot
SpecSnapshot == Init /\ [][SnapshotNext]_vars

\* the engine without shutdown, with the same caller
SpecSnapshotRunning == Init /\ [][PlayerNext \/ GetQueueSnapshot]_vars

\* the registry alone: commands are registered on top of the core commands
SpecRegistry == NoAdminInit /\ [][RegistryNext]_vars

\* the parser of log lines alone, one line
SpecParser == NoAdminInit /\ [][ParserNext]_vars

\* a user who names commands no handler runs for
SpecLookup == NoAdminInit /\ [][LookupNext]_vars

\* a user who keeps sending commands
SpecCooldown == NoAdminInit /\ [][CooldownNext]_vars

\* command lines delivered by both publisher threads
SpecDouble == Init /\ [][DoubleNext]_vars

\* the !tts command and the playback engine
SpecTts == NoAdminInit /\ [][TtsNext]_vars

\* the EventBus alone
SpecBus == NoAdminInit /\ [][BusNext]_vars

\* the registry under register, unregister, enable, disable and execute
SpecRegistryOps == NoAdminInit /\ [][RegistryOpsNext]_vars

(***************************************************************************)
(* Claims about the Dispatcher                                             *)
(***************************************************************************)
\* The requester is the configured administrator: an administrator is
\* configured and the two names agree once both are trimmed.
Administrator(user_name) ==
    /\ config_admin_user # NoneVal
    /\ config_admin_user # <<>>
    /\ Strip(user_name) = Strip(config_admin_user)

PassedRateLimit(t) == hpc[t] = "write" \/ call[t].outcome \in {"started", "not_found", "denied"}

\* C1: once an event of a non-admin user has passed the rate-limit step at
\* time t, every further event of that user arriving before t + 30 s is
\* discarded (it never gets past rate limiting, no handler is started); and
\* an event is discarded by rate limiting only after an event of that user
\* has passed it (the first one is accepted).
C1_CooldownDiscards ==
    \A t \in Publishers :
        /\ (call[t].cooling /\ ~Administrator(call[t].user)) => ~PassedRateLimit(t)
        /\ call[t].outcome = "rate_limited" => call[t].user \in DOMAIN pass_last

\* C2: events of the configured administrator are never discarded by rate
\* limiting, and no step of handling them adds or changes an entry of the
\* rate-limit table.
C2_AdminNotLimited ==
    \A t \in Publishers :
        Administrator(call[t].user) =>
            /\ call[t].outcome # "rate_limited"
            /\ hpc[t] # "write"

C2_AdminStepKeepsTable ==
    \A t \in Publishers :
        (hpc'[t] # hpc[t]
           /\ Administrator(IF hpc[t] = "idle" THEN call'[t].user ELSE call[t].user))
        => user_last_command_time' = user_last_command_time

C2_AdminNeverRateLimited ==
    [](C2_AdminNotLimited /\ \A u \in DOMAIN user_last_command_time : ~Administrator(u))
    /\ [][C2_AdminStepKeepsTable]_vars

\* two events of the administrator less than 0.5 s apart, both dispatched
C2_Witness ==
    /\ Administrator(call["watchdog"].user)
    /\ Administrator(call["monitor"].user)
    /\ call["watchdog"].outcome = "started"
    /\ call["monitor"].outcome = "started"
    /\ call["monitor"].time - call["watchdog"].time = 1

\* C3: the handler of an admin-only command is started only for the
\* configured administrator, under whichever name or alias it was requested;
\* with no administrator configured no admin-only command is started.
C3_AdminOnlyGuarded ==
    \A t \in Publishers :
        (call[t].outcome = "started" /\ GetCommand(commands, call[t].command).admin_only)
        => (Truthy(config_admin_user) /\ Administrator(call[t].user))

\* a non-admin asked for an admin-only command and was turned away
C3_Witness ==
    \E t \in Publishers :
        /\ call[t].outcome = "denied"
        /\ ~Administrator(call[t].user)
        /\ GetCommand(commands, call[t].command).admin_only

\* The event can be dispatched as far as the registry and authorisation go:
\* its command is registered and the requester may run it.
Dispatchable(c) ==
    /\ GetCommand(commands, c.command) # NoCommand
    /\ (GetCommand(commands, c.command).admin_only => Administrator(c.user))

\* C4 as stated: a repeat of the last accepted triple less than 0.5 s after
\* that acceptance is discarded as a duplicate; a repeat 0.5 s or more after
\* it is dispatched to its handler, for any requesting user.
C4_RepeatDispatchedForAnyUser ==
    \A t \in Publishers :
        /\ call[t].dup = "within" => call[t].outcome = "duplicate"
        /\ (call[t].dup = "after" /\ hpc[t] = "done" /\ Dispatchable(call[t]))
           => call[t].outcome = "started"

\* C4 as amended: a repeat less than 0.5 s after the acceptance is discarded
\* as a duplicate; a repeat 0.5 s or more after it is never discarded as a
\* duplicate, is dispatched to its handler when the requester is the
\* administrator, and for any other user is dispatched or discarded by rate
\* limiting.
C4_RepeatPassesDuplicateCheck ==
    \A t \in Publishers :
        /\ call[t].dup = "within" => call[t].outcome = "duplicate"
        /\ call[t].dup = "after" => call[t].outcome # "duplicate"
        /\ (call[t].dup = "after" /\ hpc[t] = "done" /\ Dispatchable(call[t]))
           => IF Administrator(call[t].user)
              THEN call[t].outcome = "started"
              ELSE call[t].outcome \in {"started", "rate_limited"}

\* a repeat that came 0.5 s or more after the acceptance and was dispatched
C4_Witness ==
    \E t \in Publishers :
        /\ call[t].dup = "after"
        /\ call[t].outcome = "started"

(***************************************************************************)
(* Claims about the Playback Engine                                        *)
(***************************************************************************)
\* the worker began playing the item (line 108)
WasStarted(id) == id \in Range(started)

\* playback of the item is over: it finished, was interrupted, or failed
Ended == {"finished", "interrupted", "error"}

\* C5: items are played in the order play_file accepted them, one at a time:
\* the worker starts items in arrival order, every item started earlier has
\* ended before the next one is started, and the queue is never reordered.
C5_PlayedInArrivalOrder ==
    /\ \A i, j \in DOMAIN started : i < j => started[i] < started[j]
    /\ \A i \in DOMAIN started : i < Len(started) => status[started[i]] \in Ended
    /\ \A i, j \in DOMAIN play_queue : i < j => play_queue[i].id < play_queue[j].id
    /\ \A i \in DOMAIN play_queue : \A j \in DOMAIN started : started[j] < play_queue[i].id

\* two items were accepted and both played to their end, the first one first
C5_Witness ==
    /\ started = <<1, 2>>
    /\ status[1] = "finished"
    /\ status[2] = "finished"
    /\ n_stops = 0

\* C6: when stop_playback(clear_queue=True) is called while an item is
\* streaming, no item that was queued at that moment is ever started.
C6_ClearedItemsNeverStart ==
    \A k \in DOMAIN stop_log :
        stop_log[k].clear /\ stop_log[k].streaming
            => \A i \in DOMAIN stop_log[k].queued : ~WasStarted(stop_log[k].queued[i])

\* the only stop_playback call so far was a skip (clear_queue=False) that
\* found an item streaming and another one queued behind it
C7_Case ==
    /\ n_stops = 1
    /\ ~stop_log[1].clear
    /\ stop_log[1].streaming
    /\ stop_log[1].queued # <<>>

\* the item started right after item a, if any, is item b
NextStartedIs(a, b) ==
    \A i \in DOMAIN started : started[i] = a /\ i < Len(started) => started[i + 1] = b

C8_SkipRemovesNothing ==
    (\A k \in DOMAIN stop_log : ~stop_log[k].clear)
        => \A id \in Ids :
               status[id] \in {"skipped", "drained"}
                   => \E k \in DOMAIN stop_log : stop_log[k].item = id

StopFlagClearedOnlyAtTop ==
    stop_event /\ ~stop_event' => wpc = "top" /\ wpc' = "get"

\* a stop_playback call made after the flag was cleared and before the
\* item's stream started keeps the flag set for as long as the worker is on
\* that item
LateStopHeld ==
    /\ stop_before_start /\ InFlight => stop_event
    /\ stop_before_start /\ wpc = "top"
           => status[file_path.id] \in {"skipped", "interrupted", "error", "finished"}

C11_ShutdownQueuedNeverStart ==
    \A i \in DOMAIN sd_queued : ~WasStarted(sd_queued[i])

\* the events of the given type published for the item
EventsOf(type, id) ==
    { i \in DOMAIN events : events[i].type = type /\ events[i].file_path.id = id }

\* the worker has dealt with the item
DealtWith(id) == status[id] \in {"finished", "interrupted", "error", "skipped", "drained"}

\* the item hit an error: opening it or setting up or starting its stream
\* raised, or reading it in the audio callback raised
HitError(id) == status[id] = "error" \/ id \in callback_failed

\* C12 (first part): an item that hit a decode or output-device error has,
\* once the worker has dealt with it, one playback_error event carrying its
\* path, and no playback_finished event.
C12_ErrorPublishesPlaybackError ==
    \A id \in Ids :
        HitError(id) /\ DealtWith(id) /\ status[id] # "interrupted" =>
            /\ Cardinality(EventsOf(EVENT_PLAYBACK_ERROR, id)) = 1
            /\ \A i \in EventsOf(EVENT_PLAYBACK_ERROR, id) : events[i].file_path.path \in FilePaths
            /\ EventsOf(EVENT_PLAYBACK_FINISHED, id) = {}

\* an error does not end the loop or drop an item: the worker has not left
\* its loop, items are started in arrival order, and unless stop_playback
\* was called no item is dropped unplayed
ErrorKeepsLoopGoing ==
    /\ wpc # "exited"
    /\ n_stops = 0 => \A id \in Ids : status[id] \notin {"skipped", "drained"}
    /\ \A i, j \in DOMAIN started : i < j => started[i] < started[j]

\* once an item has failed, the queue behind it is worked off: play_file
\* accepts a bounded number of paths here, so the queue comes to be empty
\* exactly when every item queued behind the failed one has been dequeued
QueuedBehindErrorDequeued ==
    ((\E e \in Ids : status[e] = "error") /\ play_queue # <<>>) ~> (play_queue = <<>>)

\* the rest of C12, which holds with a fairly scheduled worker
ErrorAbortsOnlyItem == []ErrorKeepsLoopGoing /\ QueuedBehindErrorDequeued

\* the worker has begun streaming the item (stream.start() returned)
BegunStreaming(id) ==
    \/ status[id] \in {"finished", "interrupted"}
    \/ status[id] = "active" /\ file_path.id = id /\ wpc \in {"wait", "cleanup"}

\* C13: for every item the worker has begun streaming, a playback_started
\* event carrying the item's path has been published, and it comes before
\* every playback_finished or playback_error event of that item.
C13_StartedEventFirst ==
    \A id \in Ids :
        BegunStreaming(id) =>
            /\ \E i \in EventsOf(EVENT_PLAYBACK_STARTED, id) : events[i].file_path.path \in FilePaths
            /\ \A i \in EventsOf(EVENT_PLAYBACK_STARTED, id) :
                   \A j \in EventsOf(EVENT_PLAYBACK_FINISHED, id) \cup EventsOf(EVENT_PLAYBACK_ERROR, id) :
                       i < j

(***************************************************************************)
(* Claims about the Log Tailer                                             *)
(***************************************************************************)
\* every read starts at the tracked position, which is where the read
\* before it ended (the first one at the position the file was opened at)
ReadsContiguous ==
    \A i \in DOMAIN reads :
        /\ reads[i].from = reads[i].tracked
        /\ reads[i].from = IF i = 1 THEN 0 ELSE reads[i - 1].to

Overlap(r1, r2) == r1.epoch = r2.epoch /\ r1.from < r2.to /\ r2.from < r1.to

\* C15: however the calls of _read_new_lines by the watchdog thread and by
\* the monitor thread interleave, no byte range is read twice and no line
\* reaches the line callback twice.
C15_NoDuplicateReads ==
    /\ \A i, j \in DOMAIN reads : i < j => ~Overlap(reads[i], reads[j])
    /\ \A i, j \in DOMAIN delivered : i < j => ~Overlap(delivered[i], delivered[j])

\* C16: once a poll has found the file smaller than the tracked size, no
\* content of the file from before the truncation that was delivered
\* already is delivered again.
C16_NoReplayAfterTruncation ==
    \A j \in DOMAIN delivered :
        j > shrink_found.n /\ delivered[j].epoch < shrink_found.epoch
            => \A i \in DOMAIN delivered : i < j => ~Overlap(delivered[i], delivered[j])

\* a step in which a poll that found the file shrunk stores the position
ShrunkPollStores == \E t \in Publishers : tpc[t] = "tell_shrunk" /\ tpc'[t] = "idle"

\* C17: the tracked position decreases only in a poll that found the file
\* shrunk, and it is then reset to 0.
C17_PositionMonotone ==
    [][last_size' < last_size => ShrunkPollStores /\ last_size' = 0]_vars

\* the first line lies before the second one in the file
Before(l1, l2) == l1.epoch < l2.epoch \/ (l1.epoch = l2.epoch /\ l1.to <= l2.from)

\* C18: lines reach the line callback, and their events the EventBus, in
\* file order: a line is not handed on after a later line of the file,
\* unless it was handed on before that later line as well.
C18_DeliveredInFileOrder ==
    \A i, j \in DOMAIN delivered :
        i < j /\ Before(delivered[j], delivered[i])
            => \E k \in DOMAIN delivered : k < i /\ Overlap(delivered[k], delivered[j])

\* the keys the last call of register_command asked for
AskedKeys ==
    {Lower(last_register.name)}
        \cup { Lower(last_register.aliases[i]) : i \in DOMAIN last_register.aliases }

\* the Command the last call of register_command was to create
AskedCommand ==
    NewCommand(last_register.name, last_register.func, last_register.aliases,
               last_register.admin_only)

\* names in either letter case, for lookups
LookupNames == NewNames \cup NewAliases \cup { <<"p">>, <<"S">>, <<"s">>, <<"P","L","A","Y">> }

\* C19: when the lower-cased name or a lower-cased alias of the command to
\* register is a key of the index already, register_command returns False
\* and the index stays exactly as it was; the names of the rejected command
\* that did not collide resolve to no command, those that collided to the
\* command that had them before.
C19_RejectedLeavesIndex ==
    last_register.made /\ AskedKeys \cap DOMAIN last_register.before # {}
        => /\ last_register.result = FALSE
           /\ commands = last_register.before
           /\ \A n \in LookupNames :
                  Lower(n) \in AskedKeys =>
                      GetCommand(commands, n) =
                          IF Lower(n) \in DOMAIN last_register.before
                          THEN last_register.before[Lower(n)] ELSE NoCommand

\* a call was rejected for an alias only, and its name did not collide
C19_Witness ==
    /\ last_register.made
    /\ Lower(last_register.name) \notin DOMAIN last_register.before
    /\ \E i \in DOMAIN last_register.aliases :
           Lower(last_register.aliases[i]) \in DOMAIN last_register.before
    /\ \E i \in DOMAIN last_register.aliases :
           Lower(last_register.aliases[i]) \notin DOMAIN last_register.before
    /\ last_register.result = FALSE

\* C20: when neither the lower-cased name nor a lower-cased alias is a key
\* of the index, register_command returns True; afterwards get_command of
\* the name and of every alias, in any letter case, returns the one new
\* Command, and every other lookup returns what it returned before.
C20_RegisteredUnderAllNames ==
    last_register.made /\ AskedKeys \cap DOMAIN last_register.before = {}
        => /\ last_register.result = TRUE
           /\ \A n \in LookupNames :
                  GetCommand(commands, n) =
                      IF Lower(n) \in AskedKeys THEN AskedCommand
                      ELSE GetCommand(last_register.before, n)
           /\ DOMAIN commands = DOMAIN last_register.before \cup AskedKeys

\* a command was registered under an upper-case name with an upper-case
\* alias, next to the core commands
C20_Witness ==
    /\ last_register.made
    /\ last_register.result = TRUE
    /\ last_register.name = <<"X">>
    /\ last_register.aliases = << <<"A">> >>
    /\ GetCommand(commands, <<"x">>) = AskedCommand
    /\ GetCommand(commands, <<"a">>) = AskedCommand
    /\ last_register.before = CoreCommands

\* the keys a command is to be found under
KeysOf(command) == {command.name} \cup Range(command.aliases)

\* C21: after any sequence of register_command, unregister_command,
\* enable_command and disable_command calls the names and aliases of
\* distinct registered commands are pairwise disjoint, and a key maps to a
\* command if and only if it is the command's name or one of its aliases.
C21_IndexConsistent ==
    /\ \A c1, c2 \in Range(commands) : c1 # c2 => KeysOf(c1) \cap KeysOf(c2) = {}
    /\ \A k \in DOMAIN commands : k \in KeysOf(commands[k])
    /\ \A c \in Range(commands) :
           \A k \in KeysOf(c) : k \in DOMAIN commands /\ commands[k] = c

\* "play" was unregistered, a command with two aliases, one of them the
\* freed "p", was registered and has just been disabled
C21_Witness ==
    /\ last_call.op = "disable"
    /\ last_call.result
    /\ <<"p","l","a","y">> \notin DOMAIN commands
    /\ <<"x">> \in DOMAIN commands
    /\ commands[<<"x">>].aliases = << <<"a">>, <<"p">> >>
    /\ ~commands[<<"p">>].enabled

\* names in either letter case, for lookups after a call
AnyCaseNames == CalledNames \cup LookupNames

\* the last call was unregister_command with the name of a command
UnregisteredByName ==
    /\ last_call.op = "unregister"
    /\ Lower(last_call.name) \in DOMAIN last_call.before
    /\ last_call.before[Lower(last_call.name)].name = Lower(last_call.name)

\* C22: unregister_command with a registered canonical name, in any letter
\* case, returns True; afterwards the name and every alias of the command
\* resolve to no command, and every other name resolves as before.
C22_UnregisterRemovesAllKeys ==
    UnregisteredByName
        => /\ last_call.result = TRUE
           /\ \A n \in AnyCaseNames :
                  GetCommand(commands, n) =
                      IF Lower(n) \in KeysOf(last_call.before[Lower(last_call.name)])
                      THEN NoCommand ELSE GetCommand(last_call.before, n)

\* "PLAY" was unregistered while a command registered at run time was there:
\* "p" is gone, "x" is as before
C22_Witness ==
    /\ UnregisteredByName
    /\ last_call.name = <<"P","L","A","Y">>
    /\ <<"p">> \in DOMAIN last_call.before
    /\ GetCommand(commands, <<"p">>) = NoCommand
    /\ GetCommand(commands, <<"X">>) # NoCommand
    /\ GetCommand(commands, <<"a">>) = GetCommand(commands, <<"x">>)

\* C23: unregister_command with a key that is only an alias, or with a name
\* that is not registered, returns False and leaves the index as it was.
C23_UnregisterByAliasRejected ==
    last_call.op = "unregister" /\ ~UnregisteredByName
        => /\ last_call.result = FALSE
           /\ commands = last_call.before
           /\ \A n \in AnyCaseNames :
                  GetCommand(commands, n) = GetCommand(last_call.before, n)

\* unregister_command("p"), the alias of "play": both still resolve to it
C23_Witness ==
    /\ last_call.op = "unregister"
    /\ last_call.name = <<"p">>
    /\ last_call.result = FALSE
    /\ GetCommand(commands, <<"p">>) # NoCommand
    /\ GetCommand(commands, <<"p">>).name = <<"p","l","a","y">>
    /\ GetCommand(commands, <<"P","L","A","Y">>) = GetCommand(commands, <<"p">>)

\* the command the last call of enable_command or disable_command found
Toggled == GetCommand(last_call.before, last_call.name)

\* after enable_command or disable_command every key of the command it found
\* maps to the command with the flag as set, and nothing else has changed
ToggleSetsOnlyTheFlag ==
    last_call.op \in {"enable", "disable"}
        => /\ DOMAIN commands = DOMAIN last_call.before
           /\ \A k \in DOMAIN commands :
                  commands[k] =
                      IF last_call.result /\ k \in KeysOf(Toggled)
                      THEN [Toggled EXCEPT !.enabled = (last_call.op = "enable")]
                      ELSE last_call.before[k]

\* the flag of a registered command changes only in a call of
\* enable_command or disable_command that finds the command
FlagChangesOnlyByToggle ==
    \A k \in DOMAIN commands \cap DOMAIN commands' :
        commands[k].enabled # commands'[k].enabled
            => /\ last_call'.op = (IF commands'[k].enabled THEN "enable" ELSE "disable")
               /\ last_call'.before = commands
               /\ k \in KeysOf(GetCommand(commands, last_call'.name))

\* an execution goes on to the handler only when it finds the flag set
HandlerOnlyWhenEnabled == xpc = "check" /\ xpc' = "call" => held.enabled

\* C24: after disable_command(k), k the name or an alias of a command, the
\* command is disabled under all its names: an execution of it that tests
\* the flag from then on does not call the handler, until enable_command is
\* called for the command; enable_command and disable_command change the
\* command's enabled flag and nothing else in the registry.
C24_DisabledNeverInvoked ==
    /\ []ToggleSetsOnlyTheFlag
    /\ [][FlagChangesOnlyByToggle]_vars
    /\ [][HandlerOnlyWhenEnabled]_vars

\* "play" was disabled through its alias and an execution of it, looked up
\* under its name, has returned without calling the handler
C24_Witness ==
    /\ last_exec = [ name |-> <<"p","l","a","y">>, invoked |-> FALSE ]
    /\ held_live
    /\ ~GetCommand(commands, <<"p">>).enabled
    /\ ~GetCommand(commands, <<"P","L","A","Y">>).enabled

\* the callbacks a publish has called, in the order of the calls
CalledCallbacks == [i \in DOMAIN called |-> called[i].callback]

\* the publish has returned
Published == ppc = "idle"

\* C25: publish calls the callbacks that were subscribed to the topic when
\* it began, each once per subscription and in the order of the list,
\* whatever the callbacks subscribe or unsubscribe while it runs: during the
\* publish the calls made are the beginning of that list, and when it
\* returns they are the whole list.
C25_PublishCallsSnapshot ==
    /\ Len(called) <= Len(at_begin)
    /\ CalledCallbacks = SubSeq(at_begin, 1, Len(called))
    /\ Published => CalledCallbacks = at_begin

\* a publish has called two callbacks and has returned with nobody
\* subscribed to the topic any more: the callbacks unsubscribed each other
C25_Witness ==
    /\ Published
    /\ Len(called) = 2
    /\ raised_at = {}
    /\ ptopic \notin DOMAIN subscribers

\* a callback that raises changes no subscriber list
RaiseKeepsSubscribers ==
    raised_at' # raised_at => subscribers' = subscribers

\* publishing to a topic without subscribers calls nothing and changes nothing
EmptyPublishDoesNothing ==
    (\E topic \in Topics, p \in Payloads : PublishBegin(topic, p)) /\ at_begin' = <<>>
        => ppc' = "idle" /\ called' = <<>> /\ subscribers' = subscribers

\* C26: an exception raised by a callback does not leave publish; every
\* callback after it in the list is still called, with the same payload, and
\* the subscriber lists stay as they are; a publish to a topic without
\* subscribers calls nothing and raises nothing.
C26_RaisingCallbackIsolated ==
    /\ [](ppc # "raised")
    /\ [](Published => Len(called) = Len(at_begin))
    /\ [](\A i \in DOMAIN called : called[i].payload = payload)
    /\ [][RaiseKeepsSubscribers]_vars
    /\ [][EmptyPublishDoesNothing]_vars

\* the first of two callbacks raised, the second one was called all the same
C26_Witness ==
    /\ Published
    /\ raised_at = {1}
    /\ Len(called) = 2
    /\ called[2].payload = "m2"
    /\ ListOf(subscribers, ptopic) = at_begin

\* whatever the handler threads do, every publisher thread can take its
\* next step in handle_command_event
PublisherNeverWaits ==
    \A t \in Publishers :
        /\ hpc[t] = "rate" => ENABLED RateLimitCheck(t)
        /\ hpc[t] = "write" => ENABLED RateLimitRecord(t)
        /\ hpc[t] = "done" => ENABLED Return(t)

\* a thread is started exactly when a command is found and allowed, one
\* thread for each such command
OneThreadPerDispatch ==
    \A t \in Publishers :
        (call[t].outcome # "started" /\ call'[t].outcome = "started")
            <=> /\ Len(threads') = Len(threads) + 1
                /\ threads'[Len(threads')].by = t

\* C27: handle_command_event does not wait for the handler: the handler of
\* each authorised command runs in a thread of its own, and a handler that
\* never returns holds up no later step of the duplicate check, the rate
\* limit or the dispatch; later handlers can start and finish before it.
C27_HandlerRunsInOwnThread ==
    /\ []PublisherNeverWaits
    /\ [][OneThreadPerDispatch]_vars

\* two commands were dispatched and both calls have returned; the handler of
\* the first is still running, the handler of the second has finished
C27_Witness ==
    /\ Len(threads) = 2
    /\ threads[1].state = "running"
    /\ threads[2].state = "returned"
    /\ \A t \in Publishers : hpc[t] = "idle"

\* a step of a handler thread leaves the Dispatcher and the registry alone
HandlerStepKeepsDispatcher ==
    threads' # threads /\ Len(threads') = Len(threads)
        => UNCHANGED <<execVars, regVars, busVars, parseVars, ttsVars, chunkVars, snapVars>>

\* C28: an exception raised by a command handler is caught in the thread
\* that runs the handler; it reaches no publisher thread and changes nothing
\* of the Dispatcher or the registry, and later commands are dispatched.
C28_HandlerExceptionCaught ==
    /\ [](\A i \in DOMAIN threads : threads[i].state # "crashed")
    /\ [][HandlerStepKeepsDispatcher]_vars

\* the handler of the first command raised, and a later command has been
\* dispatched to a thread of its own
C28_Witness ==
    /\ Len(threads) = 2
    /\ threads[1].state = "caught"
    /\ \E t \in Publishers : call[t].outcome = "started" /\ threads[2].by = t

\* C29: a line handed to the parser that yields no chat, command or kill
\* event is published as undefined_message with the raw line: when
\* _process_line is through with a line, an event has been published for it.
C29_EveryLineYieldsEvent ==
    lpc = "done"
        => /\ published # <<>>
           /\ \A i \in DOMAIN published :
                  published[i].type = EVENT_UNDEFINED_MESSAGE => published[i].message = log_line

\* the stripping loop is over
Stripped == lpc \in {"named", "done"} /\ raw_user_name # NoneVal

\* a pass that finds a tag makes the name shorter by the tag at least
PassShortens ==
    lpc = "strip" /\ lpc' = "strip" => Len(cur_user_name') + 6 <= Len(cur_user_name)

\* C30: the tag stripping loop ends after finitely many passes, at most one
\* for every six characters of the user field and a last one, with a name
\* that starts with none of the known tags; stripping that name again finds
\* no tag and returns the name unchanged.
C30_TagStrippingIdempotent ==
    /\ [](n_passes <= (IF raw_user_name = NoneVal THEN 0 ELSE Len(raw_user_name) \div 6) + 1)
    /\ [][PassShortens]_vars
    /\ [](Stripped => /\ \A i \in DOMAIN possible_tags :
                             ~StartsWith(cur_user_name, possible_tags[i])
                      /\ ~StripPass(cur_user_name).found
                      /\ StripTags(cur_user_name) = cur_user_name
                      /\ StripTags(raw_user_name) = cur_user_name)

\* two tags were stripped in three passes and the name "bob" is left
C30_Witness ==
    /\ Stripped
    /\ n_passes = 3
    /\ Len(stripped_tags) = 2
    /\ cur_user_name = <<"b", "o", "b">>
    /\ raw_user_name # cur_user_name

\* the user fields of up to MaxTags status tags in front of a name
TagLists == UNION { [1..n -> TagPieces] : n \in 0..MaxTags }

\* the names of the model's lines that are not empty
Names == BaseNames \ { <<>> }

\* the tags of a user field as possible_tags spells them
TagsOf(ts) == [i \in DOMAIN ts |-> Strip(ts[i])]

\* the line is the simple-format chat line of the tags ts, the name b and
\* the message t
SimpleLine(ts, b, t) == log_line = Concat(ts) \o b \o Sep \o t

\* the user of a simple-format line: no identifier, no team
SimpleUser(ts, b) ==
    [ name |-> b, steamid |-> NoneVal, tags |-> TagsOf(ts), team |-> NoneVal ]

\* the message is a command: the prefix and at least one more character
IsCommandText(t) == Head(t) = "!" /\ Len(Strip(t)) > 1

\* C31: a simple-format chat line "<status tags> <name> : <message>" whose
\* message starts with "!" and has a further character yields exactly one
\* event, command_detected, with the name without its leading tags, the
\* removed tags, the first token as the command and the remaining words as
\* the arguments; a message that is "!" alone yields one chat event.
C31_SimpleCommandLineParsed ==
    lpc = "done" =>
        \A ts \in TagLists, b \in Names, t \in Tails :
            SimpleLine(ts, b, t) /\ Head(t) = "!" =>
                IF IsCommandText(t)
                THEN /\ Len(published) = 1
                     /\ published[1].type = EVENT_COMMAND_DETECTED
                     /\ published[1].user = SimpleUser(ts, b)
                     /\ published[1].command = SubSeq(t, 1, FirstWordLen(t))
                     /\ published[1].args = SplitWords(From(t, FirstWordLen(t) + 1), <<>>)
                ELSE published = << [ type |-> EVENT_CHAT_RECEIVED, user |-> SimpleUser(ts, b),
                                      message |-> <<"!">> ] >>

\* the line "*DEAD* bob : !play a  b" has been parsed: bob, tagged *DEAD*,
\* gave the command !play with the arguments a and b
C31_Witness ==
    /\ lpc = "done"
    /\ log_line = <<"*", "D", "E", "A", "D", "*", " ", "b", "o", "b", " ", ":", " ",
                    "!", "p", "l", "a", "y", " ", "a", " ", " ", "b">>
    /\ published = << [ type |-> EVENT_COMMAND_DETECTED,
                        user |-> [ name |-> <<"b", "o", "b">>, steamid |-> NoneVal,
                                   tags |-> << <<"*", "D", "E", "A", "D", "*">> >>,
                                   team |-> NoneVal ],
                        command |-> <<"!", "p", "l", "a", "y">>,
                        args |-> << <<"a">>, <<"b">> >> ] >>

\* what stands between the user field and the message of a chat line, in
\* the simple format and in the format with the identifier
ChatMiddles == { m \in Middles : m # <<>> /\ m # Killed }

\* C32: for a chat line of either format that begins with a status tag, the
\* published event carries the name without the tags and reports the
\* removed tags in user.tags.
C32_RemovedTagsReported ==
    lpc = "done" =>
        \A ts \in TagLists \ { <<>> }, b \in Names, m \in ChatMiddles, t \in Tails :
            log_line = Concat(ts) \o b \o m \o t =>
                /\ Len(published) = 1
                /\ published[1].user.name = b
                /\ published[1].user.tags = TagsOf(ts)

\* the thread of cmd_tts goes on from the finished conversion to the playing
TtsPlayStep == tts_pc = "play" /\ tts_pc' = "playing"

\* C33: when the synthesis, the MP3 save and the WAV conversion succeeded,
\* cmd_tts hands the WAV path to play_file, once: the step that plays the
\* speech appends the path to the playback queue, and cmd_tts never plays
\* it on an output stream of its own.
C33_TtsGoesThroughQueue ==
    /\ [][TtsPlayStep => /\ Len(play_queue') = Len(play_queue) + 1
                         /\ play_queue'[Len(play_queue')].path = wav_file_path]_vars
    /\ []~direct_stream

\* C34: each command line appended once starts its handler at most once,
\* also when the watchdog thread and the monitor thread both deliver the
\* appended lines: no more handlers are started than lines were appended.
C34_DoubleDeliveryAbsorbed == Len(threads) <= Len(chunk)

\* the lines of the log that have their terminator
CompleteLines ==
    LET ls == SplitLines(log_file, 0, <<>>, 0)
    IN  IF log_file = <<>> \/ log_file[Len(log_file)] = "\n" THEN Range(ls)
        ELSE { ls[i] : i \in 1..(Len(ls) - 1) }

\* C35: the line callback is called with complete lines only: what has been
\* delivered is a line of the log from its first character to its
\* terminator, also when the line was written in two writes with a poll in
\* between.
C35_OnlyCompleteLines ==
    \A i \in DOMAIN delivered :
        [ text |-> delivered[i].text, from |-> delivered[i].from, to |-> delivered[i].to ]
            \in CompleteLines

\* the worker is waiting in get(timeout=0.5) at the top of its loop
WaitingOnQueue == wpc = "get"

CooldownOver(t) ==
    /\ call[t].user # NoneVal
    /\ ~Administrator(call[t].user)
    /\ call[t].user \in DOMAIN pass_last
    /\ pass_last[call[t].user] + NON_ADMIN_RATE_LIMIT_SECONDS <= call[t].time

\* C37 as stated: a user who keeps sending commands during the cool-down is
\* accepted again as soon as the rate limit has passed since their last
\* accepted command: such an event is not discarded.
C37_AcceptedWhenCooldownOver ==
    \A t \in Publishers :
        CooldownOver(t) => call[t].outcome \notin {"duplicate", "rate_limited"}

\* the steps of a thread whose event is discarded by rate limiting leave the
\* table as it is
DiscardKeepsTable ==
    \A t \in Publishers :
        (hpc'[t] # hpc[t]
           /\ (call[t].outcome = "rate_limited" \/ call'[t].outcome = "rate_limited"))
        => user_last_command_time' = user_last_command_time

\* the rate-limit test goes by the recorded time of the last accepted
\* command alone
LimitCountsFromAcceptance ==
    \A t \in Publishers :
        (hpc[t] = "rate" /\ hpc'[t] # "rate" /\ ~Administrator(call[t].user)
           /\ call[t].user \in DOMAIN user_last_command_time)
        => IF call[t].time >= user_last_command_time[call[t].user]
                                  + NON_ADMIN_RATE_LIMIT_SECONDS
           THEN hpc'[t] = "write"
           ELSE call'[t].outcome = "rate_limited"

\* C37, amended: a command discarded by rate limiting does not change the
\* user's recorded timestamp, and an event of the user passes rate limiting
\* as soon as the rate limit has passed since their last accepted command,
\* not since their last attempt.  (It can still be discarded as the
\* duplicate of an attempt made just before.)
C37_DiscardKeepsTimestamp ==
    /\ [][DiscardKeepsTable]_vars
    /\ [][LimitCountsFromAcceptance]_vars

\* the third event of user b has passed rate limiting exactly when the rate
\* limit was over, after an attempt made just before that
C37_Witness ==
    \E t \in Publishers :
        /\ n_calls = 3
        /\ hpc[t] = "write"
        /\ call[t].user = <<"b">>
        /\ <<"b">> \in DOMAIN user_last_command_time
        /\ call[t].time = user_last_command_time[<<"b">>] + NON_ADMIN_RATE_LIMIT_SECONDS

(***************************************************************************)
(* C38                                                                     *)
(***************************************************************************)
\* the items play_file has put on the queue that are still waiting there
PendingItems == SelectSeq(play_queue, LAMBDA it : it.id \in Ids /\ status[it.id] = "queued")
PendingPaths == [i \in 1..Len(PendingItems) |-> PendingItems[i].path]

SnapshotIsPendingPaths ==
    GetQueueSnapshot => queue_snapshot' = [i \in 1..Len(PendingItems) |-> PendingItems[i].path]

\* C38: every call of get_queue_snapshot returns exactly the paths play_file
\* has accepted that were neither dequeued nor drained, in enqueue order, and
\* leaves the queue as it is
C38_SnapshotIsPendingPaths ==
    [][SnapshotIsPendingPaths /\ (GetQueueSnapshot => UNCHANGED play_queue)]_vars

\* a snapshot taken while the sentinel of shutdown waits on the queue
C38_SentinelInSnapshot ==
    \E i \in DOMAIN queue_snapshot : queue_snapshot[i] = Sentinel.path

\* a snapshot that holds a path
C38_PathInSnapshot ==
    \E i \in DOMAIN queue_snapshot : queue_snapshot[i] \in FilePaths

(***************************************************************************)
(* C39                                                                     *)
(***************************************************************************)
\* the thread the current call of publisher t has started
ThreadOf(t) ==
    LET mine == { i \in DOMAIN threads : threads[i].by = t }
    IN  threads[CHOOSE i \in mine : \A j \in mine : j <= i]

\* the handler of the command has been called for the event t handles
HandlerCalled(t) == call[t].outcome = "started" /\ ThreadOf(t).state # "refused"

\* the event t handles went past line 82 and no handler was called for it:
\* its command is unknown, reserved to the administrator, or disabled
PassedWithoutHandler(t) ==
    \/ call[t].outcome \in {"not_found", "denied"}
    \/ call[t].outcome = "started" /\ ThreadOf(t).state = "refused"

\* line 82 comes before lines 91-113: the step that finds no handler to call
\* for the event of a non-admin user has put the event's time in the table
InvalidCommandRecorded ==
    \A t \in Publishers :
        (hpc[t] = "write" /\ hpc'[t] = "done" /\ PassedWithoutHandler(t)')
            => /\ call[t].user \in DOMAIN user_last_command_time'
               /\ user_last_command_time'[call[t].user] = call[t].time
C39_RecordedBeforeLookup == [][InvalidCommandRecorded]_vars

\* C39: an event of a non-admin user that names an unknown, an admin-only or
\* a disabled command starts the user's cool-down though no handler runs
\* for it: the user's next valid command that arrives less than 30 s after
\* it is discarded
C39_InvalidCommandStartsCooldown ==
    \A t1, t2 \in Publishers :
        ( /\ t1 # t2
          /\ PassedWithoutHandler(t1)
          /\ ~Administrator(call[t1].user)
          /\ call[t2].user = call[t1].user
          /\ call[t1].time < call[t2].time
          /\ call[t2].time < call[t1].time + NON_ADMIN_RATE_LIMIT_SECONDS )
        => ~HandlerCalled(t2)

\* an event with an unknown, an admin-only, a disabled command went past
\* rate limiting
C39_UnknownPassed == \E t \in Publishers : call[t].outcome = "not_found"
C39_DeniedPassed == \E t \in Publishers : call[t].outcome = "denied"
C39_DisabledPassed ==
    \E t \in Publishers : call[t].outcome = "started" /\ ThreadOf(t).state = "refused"

(***************************************************************************)
(* C40                                                                     *)
(***************************************************************************)
\* the playback_finished and playback_error events published for the item
TerminalEvents(id) == EventsOf(EVENT_PLAYBACK_FINISHED, id) \cup EventsOf(EVENT_PLAYBACK_ERROR, id)

\* at most one terminal event for an item; none for an item that was
\* interrupted, skipped or drained, or that the worker has not finished with
TerminalEventsMatchStatus ==
    \A id \in Ids :
        /\ Cardinality(TerminalEvents(id)) <= 1
        /\ EventsOf(EVENT_PLAYBACK_FINISHED, id) # {} => status[id] = "finished"
        /\ EventsOf(EVENT_PLAYBACK_ERROR, id) # {} => status[id] = "error"
        /\ status[id] \in {"interrupted", "skipped"} => TerminalEvents(id) = {}

\* a step that publishes an event publishes one event, for the item the
\* worker holds: playback_finished when the stream has ended and the wait
\* loop was not left for a stop request, playback_error when opening the
\* file or setting up or starting the stream has raised
PublishedForCause ==
    events' # events =>
        /\ Len(events') = Len(events) + 1
        /\ SubSeq(events', 1, Len(events)) = events
        /\ events'[Len(events')].file_path = file_path
        /\ events'[Len(events')].type = EVENT_PLAYBACK_FINISHED =>
               wpc = "cleanup" /\ stream_finished_event /\ ~playback_interrupted
        /\ events'[Len(events')].type = EVENT_PLAYBACK_ERROR => wpc = "error"
        /\ events'[Len(events')].type \in {EVENT_PLAYBACK_FINISHED, EVENT_PLAYBACK_ERROR}

\* the step that drops an item for the stop flag, or ends an item that a
\* stop request interrupted, publishes nothing
StoppedPublishesNothing ==
    (\E id \in Ids : status[id] # status'[id] /\ status'[id] \in {"interrupted", "skipped"})
        => events' = events

\* C40: for each item the worker dequeues at most one terminal event is
\* published: playback_finished only when its stream ended and no stop
\* request interrupted it, playback_error only when opening, decoding or
\* device setup raised; an item interrupted by stop_playback or skipped
\* because the stop flag was set when it was dequeued publishes neither
C40_OneTerminalEventPerItem ==
    /\ []TerminalEventsMatchStatus
    /\ [][PublishedForCause /\ StoppedPublishesNothing]_vars

\* one item was interrupted by a stop request and published nothing, the
\* other one published its terminal event
C40_Witness ==
    /\ \E id \in Ids : status[id] \in {"interrupted", "skipped"} /\ TerminalEvents(id) = {}
    /\ \E id \in Ids : Cardinality(TerminalEvents(id)) = 1
====
